---- MODULE Spec2Model ----
(***************************************************************************)
(* Workflow visualizer of the Nextflow pipeline builder: parseWorkflow     *)
(* (call extraction, dependency inference, wave-by-wave layering,          *)
(* coordinates and edge geometry) and the WorkflowVisualizer effect that   *)
(* runs it and updates the module-level canvasSizeForLayout; and the AI    *)
(* features: the suggest functions of geminiService and the handlers of    *)
(* App and ProcessEditor that request and apply their suggestions.         *)
(*                                                                         *)
(* Text is a sequence of one-character strings.  Process names are         *)
(* sequences of characters too, so that a name captured by a regular       *)
(* expression can be compared with a declared name.  Lengths are real      *)
(* numbers in the source; here they are integers counting 1/Scale pixel,   *)
(* Scale a power of two large enough for every halving a run performs to   *)
(* be exact.                                                               *)
(***************************************************************************)
EXTENDS Integers, Sequences, FiniteSets, TLC

VARIABLES
  workflowContent,      \* pipeline.workflowContent (App state)
  processes,            \* pipeline.processes (App state)
  canvasSizeForLayout,  \* module-level object of the visualizer module
  mounted,              \* the Visualizer tab is shown (component mounted)
  visData,              \* component state: {nodes, edges}
  canvasSize,           \* component state: {width, height}
  errorVisualizing,     \* component state: string | null
  layoutLog,            \* history: input and result of every layout pass
  ai,                       \* geminiService: the client was created (API_KEY set)
  pipelineMeta,             \* the other fields of the pipeline (App state)
  activeTab,                \* App state
  workflowGoalPrompt,       \* App state
  suggestedWorkflowContent, \* App state
  isSuggestingWorkflow,     \* App state
  isGenieModalOpen,         \* App state
  geniePipelineGoal,        \* App state
  isGeneratingFullPipeline, \* App state
  fullPipelineSuggestion,   \* App state: AIPipelineSuggestion | null
  genieError,               \* App state: string | null
  isProcessModalOpen,       \* App state: the ProcessEditor is mounted
  currentProc,              \* ProcessEditor state: the declarations of the process
  geminiTaskDesc,           \* ProcessEditor state
  geminiSuggestion,         \* ProcessEditor state
  isSuggesting,             \* ProcessEditor state
  editingProcess,           \* App state: NextflowProcess | null
  isParamModalOpen,         \* App state: the ParameterEditor is mounted
  editingParam,             \* App state: PipelineParameter | null
  requests                  \* history: the suggestion requests and their promises

\* the state of the visualizer module and component
visVars == <<canvasSizeForLayout, mounted, visData, canvasSize,
             errorVisualizing, layoutLog>>

\* the state of the AI features of App and ProcessEditor
aiVars == <<ai, pipelineMeta, activeTab, workflowGoalPrompt,
            suggestedWorkflowContent, isSuggestingWorkflow, isGenieModalOpen,
            geniePipelineGoal, isGeneratingFullPipeline, fullPipelineSuggestion,
            genieError, isProcessModalOpen, currentProc, geminiTaskDesc,
            geminiSuggestion, isSuggesting, editingProcess, isParamModalOpen,
            editingParam, requests>>

vars == <<workflowContent, processes, visVars, aiVars>>

(***************************************************************************)
(* Bounds of the model.                                                    *)
(***************************************************************************)
\* calls in a workflow text
MaxCalls == 3
\* arguments in a workflow text
MaxRefs == 2
\* layout passes in one run
MaxPasses == 2

(***************************************************************************)
(* Characters.                                                             *)
(***************************************************************************)
\* \w of the two regular expressions, restricted to the model's alphabet
WordChars == {"A", "B", "C", "X", "f", "o", "u", "t"}
\* \s, restricted to the model's alphabet
SpaceChars == {" "}

Null == "null"
\* stands for any workflowContent value whose typeof is not 'string'
NotAString == <<"<not a string>">>

isWordChar(c) == c \in WordChars

\* end (exclusive) of the greedy \w+ run that starts at i
RECURSIVE wordEnd(_, _)
wordEnd(s, i) ==
  IF i <= Len(s) /\ isWordChar(s[i]) THEN wordEnd(s, i + 1) ELSE i

\* end (exclusive) of the greedy \s* run that starts at i
RECURSIVE spaceEnd(_, _)
spaceEnd(s, i) ==
  IF i <= Len(s) /\ s[i] \in SpaceChars THEN spaceEnd(s, i + 1) ELSE i

\* position of the close parenthesis that balances an open parenthesis whose
\* inside starts at i (depth counts the parentheses opened since), or
\* Len(s) + 1 when there is none
RECURSIVE balancedEnd(_, _, _)
balancedEnd(s, i, depth) ==
  IF i > Len(s) THEN i
  ELSE IF s[i] = "(" THEN balancedEnd(s, i + 1, depth + 1)
  ELSE IF s[i] = ")" THEN (IF depth = 0 THEN i ELSE balancedEnd(s, i + 1, depth - 1))
  ELSE balancedEnd(s, i + 1, depth)

\* notCloseEnd for a group 2 that runs to the balancing close parenthesis
notCloseEndBalanced(s, i) == balancedEnd(s, i, 0)

\* end (exclusive) of the greedy run of characters other than a close
\* parenthesis that starts at i
RECURSIVE notCloseEnd(_, _)
notCloseEnd(s, i) ==
  IF i <= Len(s) /\ s[i] # ")" THEN notCloseEnd(s, i + 1) ELSE i

\* s has the literal lit at position i
hasLiteral(s, i, lit) ==
  /\ i + Len(lit) - 1 <= Len(s)
  /\ \A k \in 1..Len(lit) : s[i + k - 1] = lit[k]

NoMatch == [found |-> FALSE]

\* processCallRegexAt without the optional spaces between name and parenthesis
processCallRegexAtNoSpaces(s, i) ==
  IF ~(i <= Len(s) /\ isWordChar(s[i])) THEN NoMatch
  ELSE LET e == wordEnd(s, i)
       IN IF ~(e <= Len(s) /\ s[e] = "(") THEN NoMatch
          ELSE LET c == notCloseEnd(s, e + 1)
               IN IF c > Len(s) THEN NoMatch
                  ELSE [found |-> TRUE,
                        g1 |-> SubSeq(s, i, e - 1),
                        g2 |-> SubSeq(s, e + 1, c - 1),
                        lastIndex |-> c + 1]

\* processCallRegex: one or more word characters (group 1), optional spaces,
\* an open parenthesis, any characters other than a close parenthesis (group
\* 2), a close parenthesis; global flag.  A shorter word run is followed by a
\* word character, a shorter space run by a space and a shorter group 2 by a
\* character other than a close parenthesis, so no backtracking alternative
\* matches when the greedy one fails.
processCallRegexAt(s, i) ==
  IF ~(i <= Len(s) /\ isWordChar(s[i])) THEN NoMatch
  ELSE LET e == wordEnd(s, i)
           p == spaceEnd(s, e)
       IN IF ~(p <= Len(s) /\ s[p] = "(") THEN NoMatch
          ELSE LET c == notCloseEnd(s, p + 1)
               IN IF c > Len(s) THEN NoMatch
                  ELSE [found |-> TRUE,
                        g1 |-> SubSeq(s, i, e - 1),
                        g2 |-> SubSeq(s, p + 1, c - 1),
                        lastIndex |-> c + 1]

\* processCallRegex.exec with lastIndex = from: the leftmost match at or after from
RECURSIVE processCallRegexExec(_, _)
processCallRegexExec(s, from) ==
  IF from > Len(s) THEN NoMatch
  ELSE LET m == processCallRegexAt(s, from)
       IN IF m.found THEN m ELSE processCallRegexExec(s, from + 1)

definedProcessNames(procs) == [i \in 1..Len(procs) |-> procs[i].name]

includes(seq, x) == \E i \in 1..Len(seq) : seq[i] = x

\* pushCall without the test that the name is a declared process
pushCallAnyName(acc, names, m) ==
  Append(acc, [name |-> m.g1, callId |-> <<m.g1, Len(acc)>>, inputs |-> m.g2])

\* the body of the while loop for the match m; callIndex = Len(acc)
pushCall(acc, names, m) ==
  IF includes(names, m.g1)
  THEN Append(acc, [name |-> m.g1, callId |-> <<m.g1, Len(acc)>>, inputs |-> m.g2])
  ELSE acc

\* the while loop over processCallRegex.exec, entered with lastIndex = from
\* (extractCalls) and continued with the result m of exec (extractCallsMatch)
RECURSIVE extractCalls(_, _, _, _)
RECURSIVE extractCallsMatch(_, _, _, _)
extractCallsMatch(s, names, acc, m) ==
  IF ~m.found THEN acc
  ELSE extractCalls(s, names, m.lastIndex, pushCall(acc, names, m))

extractCalls(s, names, from, acc) ==
  extractCallsMatch(s, names, acc, processCallRegexExec(s, from))

calledProcessInstances(content, procs) ==
  extractCalls(content, definedProcessNames(procs), 1, <<>>)

(***************************************************************************)
(* Node creation (first forEach over calledProcessInstances).              *)
(***************************************************************************)
\* pixels to model units
RECURSIVE pow2(_)
pow2(n) == IF n = 0 THEN 1 ELSE 2 * pow2(n - 1)
Scale == pow2(MaxPasses)
px(n) == n * Scale

NODE_WIDTH == 180
NODE_HEIGHT == 60
X_SPACING == 80
Y_SPACING == 100
\* initial canvasSizeForLayout and initial canvasSize state
DefaultCanvasWidth == 800
DefaultCanvasHeight == 600

newNode(name) ==
  [id |-> name, name |-> name, x |-> 0, y |-> 0,
   width |-> px(NODE_WIDTH), height |-> px(NODE_HEIGHT)]

nodeIds(nodes) == {nodes[i].id : i \in 1..Len(nodes)}

\* nodeMap.has(name): nodes and nodeMap hold the same objects
nodeMapHas(nodes, name) == name \in nodeIds(nodes)

\* createNodes without the nodeMap.has test
RECURSIVE createNodesUnchecked(_, _, _)
createNodesUnchecked(calls, k, nodes) ==
  IF k > Len(calls) THEN nodes
  ELSE createNodesUnchecked(calls, k + 1, Append(nodes, newNode(calls[k].name)))

RECURSIVE createNodes(_, _, _)
createNodes(calls, k, nodes) ==
  IF k > Len(calls) THEN nodes
  ELSE createNodes(calls, k + 1,
         IF ~nodeMapHas(nodes, calls[k].name)
         THEN Append(nodes, newNode(calls[k].name))
         ELSE nodes)

(***************************************************************************)
(* Edge inference (second forEach over calledProcessInstances).            *)
(***************************************************************************)
DotOut == <<".", "o", "u", "t">>

\* sourceProcessRegex: one or more word characters (group 1), the literal
\* ".out", then optionally a dot and one or more word characters; global flag.
sourceProcessRegexAt(s, i) ==
  IF ~(i <= Len(s) /\ isWordChar(s[i])) THEN NoMatch
  ELSE LET e == wordEnd(s, i)
       IN IF ~hasLiteral(s, e, DotOut) THEN NoMatch
          ELSE LET q == e + Len(DotOut)
               IN [found |-> TRUE,
                   g1 |-> SubSeq(s, i, e - 1),
                   lastIndex |->
                     IF q + 1 <= Len(s) /\ s[q] = "." /\ isWordChar(s[q + 1])
                     THEN wordEnd(s, q + 1) ELSE q]

RECURSIVE sourceProcessRegexExec(_, _)
sourceProcessRegexExec(s, from) ==
  IF from > Len(s) THEN NoMatch
  ELSE LET m == sourceProcessRegexAt(s, from)
       IN IF m.found THEN m ELSE sourceProcessRegexExec(s, from + 1)

edgeId(source, target) == source \o <<"-", ">">> \o target

newEdge(source, target) ==
  [id |-> edgeId(source, target), source |-> source, target |-> target,
   startX |-> 0, startY |-> 0, endX |-> 0, endY |-> 0,
   controlX |-> 0, controlY |-> 0]

edgesFind(edges, id) == \E i \in 1..Len(edges) : edges[i].id = id

\* what one match adds: the edge, the successor and the in-degree
addEdge(st, source, target) ==
  [edges |-> Append(st.edges, newEdge(source, target)),
   G |-> IF source \in DOMAIN st.G /\ ~includes(st.G[source], target)
         THEN [st.G EXCEPT ![source] = Append(@, target)]
         ELSE st.G,
   inDegree |-> [st.inDegree EXCEPT ![target] = @ + 1]]

\* registerEdge without the edges.find test
registerEdgeNoDedupe(st, names, source, target) ==
  IF includes(names, source) /\ source # target
  THEN addEdge(st, source, target) ELSE st

\* registerEdge without the test that source and target differ
registerEdgeSelf(st, names, source, target) ==
  IF includes(names, source) /\ ~edgesFind(st.edges, edgeId(source, target))
  THEN addEdge(st, source, target) ELSE st

\* registerEdge without the test that the source is a declared process
registerEdgeAnySource(st, names, source, target) ==
  IF source # target /\ ~edgesFind(st.edges, edgeId(source, target))
  THEN addEdge(st, source, target) ELSE st

\* registerEdge that takes only sources that are called themselves
registerEdgeCalledOnly(st, names, source, target) ==
  IF includes(names, source) /\ source # target
     /\ ~edgesFind(st.edges, edgeId(source, target))
     /\ source \in DOMAIN st.G
  THEN addEdge(st, source, target) ELSE st

\* the body of the while loop for one match: st = [edges, G, inDegree]
registerEdge(st, names, source, target) ==
  IF includes(names, source) /\ source # target
     /\ ~edgesFind(st.edges, edgeId(source, target))
  THEN addEdge(st, source, target)
  ELSE st

\* the while loop over sourceProcessRegex.exec(inputArgs)
RECURSIVE scanInputs(_, _, _, _, _)
scanInputs(inputArgs, from, names, target, st) ==
  LET m == sourceProcessRegexExec(inputArgs, from)
  IN IF ~m.found THEN st
     ELSE scanInputs(inputArgs, m.lastIndex, names, target,
                     registerEdge(st, names, m.g1, target))

RECURSIVE inferEdges(_, _, _, _)
inferEdges(calls, k, names, st) ==
  IF k > Len(calls) THEN st
  ELSE inferEdges(calls, k + 1, names,
                  scanInputs(calls[k].inputs, 1, names, calls[k].name, st))

(***************************************************************************)
(* Layering: Kahn's algorithm, one layer per wave of the queue.            *)
(***************************************************************************)
\* nodes.forEach: the ids with in-degree 0, in node order
RECURSIVE seedQueue(_, _, _, _)
seedQueue(nodes, k, inDegree, queue) ==
  IF k > Len(nodes) THEN queue
  ELSE seedQueue(nodes, k + 1, inDegree,
         IF inDegree[nodes[k].id] = 0 THEN Append(queue, nodes[k].id)
         ELSE queue)

\* a successor joins the queue as soon as one of its predecessors is processed
RECURSIVE relaxEager(_, _, _)
relaxEager(succ, j, w) ==
  IF j > Len(succ) THEN w
  ELSE LET v == succ[j]
           d == w.inDegree[v] - 1
       IN relaxEager(succ, j + 1,
                     [inDegree |-> [w.inDegree EXCEPT ![v] = d],
                      queue |-> IF d = 0 \/ ~includes(w.queue, v)
                                THEN Append(w.queue, v) ELSE w.queue])

\* (G[u] || []).forEach: w = [inDegree, queue]
RECURSIVE relax(_, _, _)
relax(succ, j, w) ==
  IF j > Len(succ) THEN w
  ELSE LET v == succ[j]
           d == w.inDegree[v] - 1
       IN relax(succ, j + 1,
                [inDegree |-> [w.inDegree EXCEPT ![v] = d],
                 queue |-> IF d = 0 THEN Append(w.queue, v) ELSE w.queue])

\* the for loop of one wave: i of layerSize elements shifted so far
RECURSIVE wave(_, _, _, _, _)
wave(G, i, layerSize, w, layer) ==
  IF i >= layerSize THEN [inDegree |-> w.inDegree, queue |-> w.queue,
                          layer |-> layer]
  ELSE LET u == Head(w.queue)
       IN wave(G, i + 1, layerSize,
               relax(G[u], 1, [inDegree |-> w.inDegree, queue |-> Tail(w.queue)]),
               Append(layer, u))

\* the while loop: layers[currentLayer] for currentLayer = 0, 1, ...
RECURSIVE buildLayers(_, _, _, _)
buildLayers(G, queue, inDegree, layers) ==
  IF Len(queue) = 0 THEN layers
  ELSE LET r == wave(G, 0, Len(queue),
                     [inDegree |-> inDegree, queue |-> queue], <<>>)
       IN buildLayers(G, r.queue, r.inDegree, Append(layers, r.layer))

(***************************************************************************)
(* Coordinates (layers.forEach).                                           *)
(***************************************************************************)
\* layerWidth and the x of the first node of a layer of n nodes
layerWidth(n) == n * px(NODE_WIDTH) + (n - 1) * px(X_SPACING)

\* the margin replaces negative positions only
layerStartXNegativeOnly(n, canvasWidth) ==
  LET currentX == (canvasWidth - layerWidth(n)) \div 2
  IN IF currentX < 0 THEN px(X_SPACING) ELSE currentX

layerStartX(n, canvasWidth) ==
  LET currentX == (canvasWidth - layerWidth(n)) \div 2
  IN IF currentX < px(X_SPACING) THEN px(X_SPACING) ELSE currentX

layerY(layerIndex) ==
  layerIndex * (px(NODE_HEIGHT) + px(Y_SPACING)) + px(Y_SPACING)

\* where id sits in layers: <<l, j>> with layers[l][j] = id (l counted from 1)
layerOf(layers, id) ==
  UNION {{<<l, j>> : j \in {j2 \in 1..Len(layers[l]) : layers[l][j2] = id}} :
         l \in 1..Len(layers)}

placeNode(node, layers, canvasWidth) ==
  IF layerOf(layers, node.id) = {} THEN node
  ELSE LET lj == CHOOSE p \in layerOf(layers, node.id) : TRUE
           l == lj[1]
           j == lj[2]
       IN [node EXCEPT
             !.x = layerStartX(Len(layers[l]), canvasWidth)
                   + (j - 1) * (px(NODE_WIDTH) + px(X_SPACING)),
             !.y = layerY(l - 1)]

placeNodes(nodes, layers, canvasWidth) ==
  [k \in 1..Len(nodes) |-> placeNode(nodes[k], layers, canvasWidth)]

(***************************************************************************)
(* Edge endpoints and control point (edges.forEach).                       *)
(***************************************************************************)
abs(n) == IF n < 0 THEN -n ELSE n
sign(n) == IF n > 0 THEN 1 ELSE IF n < 0 THEN -1 ELSE 0
min(a, b) == IF a < b THEN a ELSE b
max(a, b) == IF a > b THEN a ELSE b

\* the integer part of the square root of n, lo*lo <= n < hi*hi
RECURSIVE isqrtBetween(_, _, _)
isqrtBetween(n, lo, hi) ==
  IF hi - lo <= 1 THEN lo
  ELSE LET mid == (lo + hi) \div 2
       IN IF mid * mid <= n THEN isqrtBetween(n, mid, hi)
          ELSE isqrtBetween(n, lo, mid)

\* Math.min(length * 0.25, 50) with length = Math.sqrt(dx*dx + dy*dy); the
\* square root is taken only below 200 pixels and rounded down to 1/Scale pixel
curvature(dx, dy) ==
  IF dx * dx + dy * dy >= px(200) * px(200) THEN px(50)
  ELSE min(isqrtBetween(dx * dx + dy * dy, 0, px(200)) \div 4, px(50))

nodeMapGet(nodes, id) == {nodes[k] : k \in {k2 \in 1..Len(nodes) : nodes[k2].id = id}}

routeEdge(edge, nodes) ==
  IF nodeMapGet(nodes, edge.source) = {} \/ nodeMapGet(nodes, edge.target) = {}
  THEN edge
  ELSE LET sourceNode == CHOOSE n \in nodeMapGet(nodes, edge.source) : TRUE
           targetNode == CHOOSE n \in nodeMapGet(nodes, edge.target) : TRUE
           startX == sourceNode.x + sourceNode.width \div 2
           startY == sourceNode.y + sourceNode.height
           endX == targetNode.x + targetNode.width \div 2
           endY == targetNode.y
           midX == (startX + endX) \div 2
           midY == (startY + endY) \div 2
           dx == endX - startX
           dy == endY - startY
           \* the first if/else: both fields are assigned again below
           firstControlX == IF abs(dx) > abs(dy) THEN midX
                            ELSE midX + curvature(dx, dy)
           firstControlY == IF abs(dx) > abs(dy)
                            THEN midY - curvature(dx, dy) * sign(dx)
                            ELSE midY
           controlX ==
             IF startY < endY
             THEN IF startX > endX
                  THEN startX - (startX - endX) \div 2 - px(30)
                  ELSE IF startX < endX
                       THEN startX + (endX - startX) \div 2 + px(30)
                       ELSE (startX + endX) \div 2
                            + (IF startX = endX THEN px(30) ELSE 0)
             ELSE midX + curvature(dx, dy)
           controlY ==
             IF startY < endY THEN startY + ((endY - startY) * 6) \div 10
             ELSE midY
       IN [edge EXCEPT !.startX = startX, !.startY = startY,
                       !.endX = endX, !.endY = endY,
                       !.controlX = controlX, !.controlY = controlY]

routeEdges(edges, nodes) ==
  [k \in 1..Len(edges) |-> routeEdge(edges[k], nodes)]

(***************************************************************************)
(* parseWorkflow(workflowContent, processes), reading canvasSizeForLayout. *)
(***************************************************************************)
isString(content) == content # NotAString

\* layering of the nodes under st = [edges, G, inDegree]; inDegree is recorded
\* as it is before the queue is processed
layeredGraph(calls, nodes, st) ==
  [calls |-> calls, nodes |-> nodes, edges |-> st.edges, G |-> st.G,
   inDegree |-> st.inDegree,
   layers |-> buildLayers(st.G, seedQueue(nodes, 1, st.inDegree, <<>>),
                          st.inDegree, <<>>)]

\* edge inference, from G[name] = [] and inDegree[name] = 0 for every node
graphOnNodes(calls, nodes, names) ==
  layeredGraph(calls, nodes,
               inferEdges(calls, 1, names,
                          [edges |-> <<>>,
                           G |-> [n \in nodeIds(nodes) |-> <<>>],
                           inDegree |-> [n \in nodeIds(nodes) |-> 0]]))

\* node creation
graphOfCalls(calls, names) ==
  graphOnNodes(calls, createNodes(calls, 1, <<>>), names)

\* everything parseWorkflow computes before it assigns coordinates
dependencyGraph(content, procs) ==
  graphOfCalls(calledProcessInstances(content, procs), definedProcessNames(procs))

\* the result: the placed nodes and the edges routed between them
routedGraph(edges, placed) ==
  [nodes |-> placed, edges |-> routeEdges(edges, placed)]

layOut(g, canvasWidth) ==
  routedGraph(g.edges, placeNodes(g.nodes, g.layers, canvasWidth))

parseWorkflow(content, procs, layoutCanvas) ==
  IF ~isString(content) THEN [nodes |-> <<>>, edges |-> <<>>]
  ELSE layOut(dependencyGraph(content, procs), layoutCanvas.width)

\* processes.map(p => p.name), the first statement of parseWorkflow, throws a
\* TypeError when an entry of the list is null
parseWorkflowThrows(content, procs) ==
  \E i \in 1..Len(procs) : "name" \notin DOMAIN procs[i]

(***************************************************************************)
(* Inputs: workflow texts and process lists.                               *)
(***************************************************************************)
procA == <<"A">>
procB == <<"B">>
procC == <<"C">>
ProcNames == <<procA, procB, procC>>

\* P.out
ref(P) == P \o DotOut
\* P.out.f
fieldRef(P) == P \o DotOut \o <<".", "f">>

RECURSIVE join(_, _)
join(parts, sep) ==
  IF Len(parts) = 0 THEN <<>>
  ELSE IF Len(parts) = 1 THEN parts[1]
  ELSE parts[1] \o sep \o join(Tail(parts), sep)

statement(head, args) == head \o <<"(">> \o join(args, <<",">>) \o <<")">>

\* parseWorkflow only compares names, so the texts about the dependency graph
\* are taken up to renaming: reading a text from the left, the names first
\* occur in the order A, B, C.  The sequences of n indices into ProcNames
\* that go on such a text in which the first used names have occurred.
RECURSIVE nameChoices(_, _)
nameChoices(n, used) ==
  IF n = 0 THEN {[seq |-> <<>>, used |-> used]}
  ELSE UNION {{[seq |-> <<c>> \o r.seq, used |-> r.used] :
                 r \in nameChoices(n - 1, max(used, c))} :
              c \in 1..min(used + 1, Len(ProcNames))}

callOfNames(seq) ==
  statement(ProcNames[seq[1]], [i \in 1..Len(seq) - 1 |-> ref(ProcNames[seq[i + 1]])])

\* the lists of at most k calls with at most total references in all, a call
\* being the indices of its names
RECURSIVE callLists(_, _, _)
callLists(k, total, used) ==
  IF k = 0 THEN {<<>>}
  ELSE {<<>>} \cup
       UNION {UNION {{<<r.seq>> \o rest :
                        rest \in callLists(k - 1, total - n, r.used)} :
                     r \in nameChoices(n + 1, used)} :
              n \in 0..total}

\* calls of A, B and C that reference one another's outputs
GraphShapes == callLists(MaxCalls, MaxRefs, 0)
graphText(shape) ==
  join([k \in 1..Len(shape) |-> callOfNames(shape[k])], <<" ">>)

\* three calls with three references: C takes the outputs of A and of B, and B
\* takes the output of A, the calls in every order
TriangleShapes ==
  {<<c[p[1]], c[p[2]], c[p[3]]>> :
     <<c, p>> \in {<<<<1>>, <<2, 1>>, <<3, 1, 2>>>>, <<<<1>>, <<2, 1>>, <<3, 2, 1>>>>}
                 \X {q \in [1..3 -> 1..3] : {q[1], q[2], q[3]} = 1..3}}

\* other callee texts: a name followed by a space, a name inside a longer
\* identifier, an identifier that is never a process
LexicalHeads == {procA, procB, <<"A", " ">>, <<"X", "A">>, <<"X">>}
\* other arguments: a named channel, a nested call, a parenthesized
\* expression, an output of an identifier that is never a process, a nested
\* call with an argument of its own
LexicalAtoms == {ref(procA), ref(procB), fieldRef(procA), <<"A", "(", ")">>,
                 <<"(", "X", ")">>, <<"X", ".", "o", "u", "t">>,
                 statement(procA, <<ref(procB)>>)}

argLists(atoms, n) == UNION {[1..k -> atoms] : k \in 0..n}

\* one call with arguments, alone or followed by a call without arguments
LexicalTexts ==
  LET first == {statement(h, a) :
                  <<h, a>> \in LexicalHeads \X argLists(LexicalAtoms, MaxRefs)}
  IN first \cup {f \o <<" ">> \o statement(h, <<>>) :
                   <<f, h>> \in first \X LexicalHeads}

process(id, name) == [id |-> id, name |-> name]
processesAB == <<process(1, procA), process(2, procB)>>
\* a list that is no NextflowProcess[]: its second entry is null
NullEntry == [null |-> TRUE]
processesWithNull == <<process(1, procA), NullEntry>>
processesABC == <<process(1, procA), process(2, procB), process(3, procC)>>

\* the pipelines the visualizer is shown
Inputs(content, procs) ==
  \/ \E shape \in GraphShapes \cup TriangleShapes :
       content = graphText(shape) /\ procs = processesABC
  \/ content \in LexicalTexts /\ procs = processesAB
  \/ /\ content \in {<<>>, NotAString, statement(procA, <<>>)}
     /\ procs \in {<<>>, processesAB}

(***************************************************************************)
(* The state of App and of the ProcessEditor before any AI feature is      *)
(* used.                                                                   *)
(***************************************************************************)
\* null, where a text is expected
NullText == <<"<null>">>
\* null, where an object is expected
NullObject == [null |-> TRUE]

\* initialPipeline without processes and workflowContent
initialPipelineMeta ==
  [name |-> <<"MyAwesomePipeline">>,
   description |-> <<"A Nextflow pipeline built with the awesome builder.">>,
   version |-> <<"1.0.0">>,
   parameters |-> <<>>,
   nextflowConfigContent |-> <<"/", "/", " ", "Example: ...">>]

\* initialProcessState, the declarations only
initialProcessState ==
  [inputDeclarations |-> <<>>, outputDeclarations |-> <<>>,
   directiveDeclarations |-> <<>>, script |-> <<>>]

\* the useState initial values of App and of a ProcessEditor not yet mounted
AppIdle ==
  /\ pipelineMeta = initialPipelineMeta
  /\ activeTab = "Setup"
  /\ workflowGoalPrompt = <<>>
  /\ suggestedWorkflowContent = <<>>
  /\ isSuggestingWorkflow = FALSE
  /\ isGenieModalOpen = FALSE
  /\ geniePipelineGoal = <<>>
  /\ isGeneratingFullPipeline = FALSE
  /\ fullPipelineSuggestion = NullObject
  /\ genieError = NullText
  /\ isProcessModalOpen = FALSE
  /\ currentProc = initialProcessState
  /\ geminiTaskDesc = <<>>
  /\ geminiSuggestion = <<>>
  /\ isSuggesting = FALSE
  /\ editingProcess = NullEntry
  /\ isParamModalOpen = FALSE
  /\ editingParam = NullEntry
  /\ requests = <<>>

(***************************************************************************)
(* The WorkflowVisualizer component.                                       *)
(***************************************************************************)
DefaultCanvas == [width |-> px(DefaultCanvasWidth), height |-> px(DefaultCanvasHeight)]
EmptyVisData == [nodes |-> <<>>, edges |-> <<>>]

Init ==
  /\ Inputs(workflowContent, processes)
  /\ canvasSizeForLayout = DefaultCanvas
  /\ mounted = FALSE
  /\ visData = EmptyVisData
  /\ canvasSize = DefaultCanvas
  /\ errorVisualizing = Null
  /\ layoutLog = <<>>
  /\ ai = FALSE
  /\ AppIdle

\* nodes.forEach: the running maxima maxX and maxY, both starting at 0
RECURSIVE maxX(_, _, _)
maxX(nodes, k, m) ==
  IF k > Len(nodes) THEN m
  ELSE maxX(nodes, k + 1,
            IF nodes[k].x + nodes[k].width > m THEN nodes[k].x + nodes[k].width
            ELSE m)

RECURSIVE maxY(_, _, _)
maxY(nodes, k, m) ==
  IF k > Len(nodes) THEN m
  ELSE maxY(nodes, k + 1,
            IF nodes[k].y + nodes[k].height > m THEN nodes[k].y + nodes[k].height
            ELSE m)

\* a canvas of the initial size whatever the nodes
canvasForFixed(nodes) == DefaultCanvas

\* the canvas size the effect computes from the nodes
canvasFor(nodes) ==
  [width |-> max(px(DefaultCanvasWidth), maxX(nodes, 1, 0) + px(X_SPACING) * 2),
   height |-> max(px(DefaultCanvasHeight), maxY(nodes, 1, 0) + px(Y_SPACING) * 2)]

\* the text the catch block stores
\* the catch block storing no message
CouldNotVisualizeSwallowed == Null

CouldNotVisualize ==
  "Could not visualize workflow: Cannot read properties of null (reading 'name')"

\* The effect: one layout pass on the pipeline (content, procs).  The error is
\* cleared, parseWorkflow runs and the canvas size is updated; when
\* parseWorkflow throws, the catch block stores the error and empties the
\* graph, and the canvas sizes stay as they are.
Effect(content, procs) ==
  /\ IF parseWorkflowThrows(content, procs)
     THEN /\ errorVisualizing' = CouldNotVisualize
          /\ visData' = EmptyVisData
          /\ UNCHANGED <<canvasSizeForLayout, canvasSize>>
     ELSE /\ errorVisualizing' = Null
          /\ visData' = parseWorkflow(content, procs, canvasSizeForLayout)
          /\ canvasSizeForLayout' = canvasFor(visData'.nodes)
          /\ canvasSize' = canvasSizeForLayout'
  /\ layoutLog' = Append(layoutLog,
                         [workflowContent |-> content,
                          processes |-> procs,
                          layoutWidth |-> canvasSizeForLayout.width,
                          errorBefore |-> errorVisualizing,
                          threw |-> parseWorkflowThrows(content, procs),
                          nodes |-> visData'.nodes, edges |-> visData'.edges])

\* The Visualizer tab is opened: the component mounts and its effect runs.
MountVisualizer ==
  /\ ~mounted
  /\ Len(layoutLog) < MaxPasses
  /\ mounted' = TRUE
  /\ Effect(workflowContent, processes)
  /\ UNCHANGED <<workflowContent, processes, aiVars>>

\* Another tab is opened: the component unmounts and its state is discarded;
\* the module-level canvasSizeForLayout stays.
UnmountVisualizer ==
  /\ mounted
  /\ mounted' = FALSE
  /\ visData' = EmptyVisData
  /\ canvasSize' = DefaultCanvas
  /\ errorVisualizing' = Null
  /\ UNCHANGED <<workflowContent, processes, canvasSizeForLayout, layoutLog,
                  aiVars>>

Next == MountVisualizer \/ UnmountVisualizer

Spec == Init /\ [][Next]_vars

(***************************************************************************)
(* The component under a pipeline prop that changes while it is mounted    *)
(* (the dependency array of the effect), and under a processes list with a *)
(* null entry, on which parseWorkflow throws.                              *)
(***************************************************************************)
\* the pipelines of this specification
EffectInputs ==
  {[content |-> c, procs |-> p] :
     c \in {<<>>, statement(procA, <<>>),
            statement(procA, <<ref(procB)>>) \o <<" ">> \o statement(procB, <<>>)},
     p \in {<<>>, processesAB, processesWithNull}}

InitEffect ==
  /\ \E in \in EffectInputs : workflowContent = in.content /\ processes = in.procs
  /\ canvasSizeForLayout = DefaultCanvas
  /\ mounted = FALSE
  /\ visData = EmptyVisData
  /\ canvasSize = DefaultCanvas
  /\ errorVisualizing = Null
  /\ layoutLog = <<>>
  /\ ai = FALSE
  /\ AppIdle

\* pipeline.workflowContent or pipeline.processes changes while the component
\* is mounted: the effect runs again
PipelineChanged ==
  /\ mounted
  /\ Len(layoutLog) < MaxPasses
  /\ \E in \in EffectInputs :
       /\ <<in.content, in.procs>> # <<workflowContent, processes>>
       /\ workflowContent' = in.content
       /\ processes' = in.procs
       /\ Effect(in.content, in.procs)
  /\ UNCHANGED <<mounted, aiVars>>

(***************************************************************************)
(* What the component renders, for a workflowContent that is a string.     *)
(***************************************************************************)
\* !pipeline.workflowContent || !pipeline.workflowContent.trim()
isBlank(content) == \A i \in 1..Len(content) : content[i] \in SpaceChars

\* the card the component returns: the error card, one of the two hint cards
\* or the card with the drawing
renderedCard ==
  IF errorVisualizing # Null THEN "error"
  ELSE IF Len(processes) = 0 /\ isBlank(workflowContent) THEN "define processes"
  ELSE IF Len(visData.nodes) = 0 /\ ~isBlank(workflowContent) THEN "no known calls"
  ELSE "drawing"

\* the texts of the rendered card
renderedTexts ==
  IF renderedCard = "error"
  THEN {[text |-> errorVisualizing],
        [text |-> "Please check the workflow content and process definitions for inconsistencies."]}
  ELSE IF renderedCard = "define processes"
  THEN {[text |-> "Define some processes and add calls to them in the Workflow tab to see a visualization."]}
  ELSE IF renderedCard = "no known calls"
  THEN {[text |-> "Could not parse any known process calls from your workflow content, or no processes are defined that match calls in the workflow."],
        [text |-> "Ensure process names in the 'Processes' tab match those called in the 'Workflow' tab"]}
  ELSE {[text |-> "This is a basic visualization of your workflow. More complex workflow structures might not be fully represented."]}
       \cup {[label |-> visData.nodes[k].name] : k \in 1..Len(visData.nodes)}

NextEffect == MountVisualizer \/ UnmountVisualizer \/ PipelineChanged

SpecEffect == InitEffect /\ [][NextEffect]_vars

(***************************************************************************)
(* geminiService: the three suggest functions.  A suggestion request is    *)
(* [kind, arg, invoked, calls, settled, deliveries, value]: whether the    *)
(* suggest function was invoked, how often it called generateContent,      *)
(* whether its promise has settled, how often the handler received the     *)
(* value, and the value, [text |-> string] or [suggestion |-> object].     *)
(* A constant text whose characters the code never inspects is written as  *)
(* one element.                                                            *)
(***************************************************************************)
\* suggestion requests in one run
MaxRequests == 2

\* String.prototype.startsWith
startsWith(s, prefix) ==
  Len(s) >= Len(prefix) /\ SubSeq(s, 1, Len(prefix)) = prefix

\* \s of trim() and of the fence regular expression
WhiteSpace == SpaceChars \cup {"\n"}

RECURSIVE trimStart(_)
trimStart(s) ==
  IF s # <<>> /\ Head(s) \in WhiteSpace THEN trimStart(Tail(s)) ELSE s

RECURSIVE trimEnd(_)
trimEnd(s) ==
  IF s # <<>> /\ s[Len(s)] \in WhiteSpace
  THEN trimEnd(SubSeq(s, 1, Len(s) - 1)) ELSE s

\* String.prototype.trim
trim(s) == trimEnd(trimStart(s))

ErrorColon == <<"E", "r", "r", "o", "r", ":">>
ErrorWord == <<"E", "r", "r", "o", "r">>

\* a notice that does not begin with "Error:"
ApiUnavailableNotice ==
  <<"G", "e", "m", "i", "n", "i", " API Key not configured or failed to initialize. AI features are disabled.">>

API_UNAVAILABLE_ERROR ==
  ErrorColon \o <<" ", "Gemini API Key not configured or failed to initialize. AI features are disabled. The API_KEY environment variable must be set during deployment to enable AI features.">>

\* the first statement of each suggest function and its one call of
\* ai.models.generateContent: without a client the promise resolves to
\* API_UNAVAILABLE_ERROR and nothing is called
newRequest(kind, arg, configured) ==
  IF ~configured
  THEN [kind |-> kind, arg |-> arg, invoked |-> TRUE, calls |-> 0,
        settled |-> TRUE, deliveries |-> 0, stale |-> FALSE,
        value |-> [text |-> API_UNAVAILABLE_ERROR]]
  ELSE [kind |-> kind, arg |-> arg, invoked |-> TRUE, calls |-> 1,
        settled |-> FALSE, deliveries |-> 0, stale |-> FALSE,
        value |-> [pending |-> TRUE]]

\* a handler that returns before it invokes its suggest function
notRequested(kind, arg) ==
  [kind |-> kind, arg |-> arg, invoked |-> FALSE, calls |-> 0,
   settled |-> TRUE, deliveries |-> 0, stale |-> FALSE, value |-> [none |-> TRUE]]

\* the log when the Genie modal is opened: a full-pipeline request that is
\* pending was started before this opening (stale, as long as it is pending)
openedAnew(reqs) ==
  [i \in 1..Len(reqs) |->
     IF reqs[i].kind = "full" /\ ~reqs[i].settled
     THEN [reqs[i] EXCEPT !.stale = TRUE] ELSE reqs[i]]

\* the return statement of the try block
afterResponse(req, value) == [req EXCEPT !.settled = TRUE, !.value = value]

\* the failed call is made again
retryAfterFailure(req, value) == [req EXCEPT !.calls = @ + 1]

\* the return statements of the catch block
afterFailure(req, value) == [req EXCEPT !.settled = TRUE, !.value = value]

\* the handler's continuation receives the value of the awaited promise
delivered(req) == [req EXCEPT !.deliveries = @ + 1, !.stale = FALSE]

\* how a call of generateContent ends: a response with a text, a rejection
\* with an Error (text is its message), a rejection with another value
outcomesOf(texts) ==
  {[kind |-> "text", text |-> t] : t \in texts}
  \cup {[kind |-> "error", text |-> <<"quota exceeded">>],
        [kind |-> "thrown", text |-> <<>>]}

\* suggestNextflowWorkflow after its call of generateContent has ended
suggestNextflowWorkflow(req, outcome) ==
  IF outcome.kind = "text" THEN afterResponse(req, [text |-> outcome.text])
  ELSE IF outcome.kind = "error"
  THEN afterFailure(req, [text |-> ErrorWord \o <<" ", "generating workflow suggestion: ">>
                                     \o outcome.text])
  ELSE afterFailure(req, [text |-> <<"A", "n", " ", "unknown error occurred while generating workflow suggestion.">>])

\* suggestNextflowProcessParts after its call of generateContent has ended
suggestNextflowProcessParts(req, outcome) ==
  IF outcome.kind = "text" THEN afterResponse(req, [text |-> outcome.text])
  ELSE IF outcome.kind = "error"
  THEN afterFailure(req, [text |-> ErrorWord \o <<" ", "generating process suggestion: ">>
                                     \o outcome.text])
  ELSE afterFailure(req, [text |-> <<"A", "n", " ", "unknown error occurred while generating process suggestion.">>])

(***************************************************************************)
(* JSON values: [string |-> text], [array |-> sequence], [object |->       *)
(* record], [null |-> TRUE]; a property an object does not have is         *)
(* [undefined |-> TRUE].                                                   *)
(***************************************************************************)
Undefined == [undefined |-> TRUE]
str(text) == [string |-> text]
arr(seq) == [array |-> seq]
obj(record) == [object |-> record]

\* obj.name, for an object
field(value, name) ==
  IF name \in DOMAIN value.object THEN value.object[name] ELSE Undefined

\* !value is false
truthy(value) ==
  /\ "undefined" \notin DOMAIN value
  /\ "null" \notin DOMAIN value
  /\ ("string" \in DOMAIN value => value.string # <<>>)

isArray(value) == "array" \in DOMAIN value

\* String(value || fallback), for strings
stringOr(value, fallback) == IF truthy(value) THEN value.string ELSE fallback

\* the suggestions of the model's responses
parameterSuggestion ==
  obj([name |-> str(<<" ", "r", "e", "a", "d", "s", " ", "i", "n">>),
       defaultValue |-> str(<<>>), description |-> str(<<"reads">>),
       type |-> str(<<"fastq">>)])

processSuggestion(name) ==
  obj([name |-> str(name), description |-> str(<<"step">>),
       inputDeclarations |-> str(<<"val x">>), outputDeclarations |-> str(<<>>),
       script |-> str(<<"echo">>)])

pipelineSuggestion ==
  [pipelineName |-> str(<<"P">>),
   pipelineDescription |-> str(<<>>),
   parameters |-> arr(<<parameterSuggestion>>),
   processes |-> arr(<<processSuggestion(<<"a">>), [null |-> TRUE],
                       processSuggestion(<<"b", " ", "c", "!">>)>>),
   workflowContent |-> str(<<"A", "(", ")", " ", "B", "_", "C", "(", "A", ".", "o", "u", "t", ")">>)]

\* the JSON documents of the model's responses and what JSON.parse makes of
\* them; every other text is no JSON
JsonDocuments ==
  [doc \in {"{pipeline}", "{pipeline without pipelineName}",
            "{pipeline with pipelineName ''}",
            "{pipeline with parameters null}",
            "{pipeline without workflowContent}", "null"} |->
     IF doc = "{pipeline}" THEN obj(pipelineSuggestion)
     ELSE IF doc = "{pipeline without pipelineName}"
     THEN obj([f \in DOMAIN pipelineSuggestion \ {"pipelineName"} |-> pipelineSuggestion[f]])
     ELSE IF doc = "{pipeline with pipelineName ''}"
     THEN obj([pipelineSuggestion EXCEPT !.pipelineName = str(<<>>)])
     ELSE IF doc = "{pipeline with parameters null}"
     THEN obj([pipelineSuggestion EXCEPT !.parameters = [null |-> TRUE]])
     ELSE IF doc = "{pipeline without workflowContent}"
     THEN obj([f \in DOMAIN pipelineSuggestion \ {"workflowContent"} |-> pipelineSuggestion[f]])
     ELSE [null |-> TRUE]]

\* JSON.parse: the value, or a SyntaxError
jsonParse(s) ==
  IF Len(s) = 1 /\ s[1] \in DOMAIN JsonDocuments
  THEN [ok |-> TRUE, value |-> JsonDocuments[s[1]]]
  ELSE [ok |-> FALSE]

\* the three backquotes of a code fence
Fence == "<fence>"
\* \w* after the opening fence
LangWords == {"json"}

\* jsonStr.match(fenceRegex): match[2], or <<>> when there is no match
fenceMatch(s) ==
  IF Len(s) >= 2 /\ s[1] = Fence /\ s[Len(s)] = Fence
  THEN LET inner == SubSeq(s, 2, Len(s) - 1)
       IN trim(IF inner # <<>> /\ Head(inner) \in LangWords
               THEN Tail(inner) ELSE inner)
  ELSE <<>>

\* jsonStr after the fence is removed
unfenced(s) == IF fenceMatch(s) # <<>> THEN trim(fenceMatch(s)) ELSE s

\* the error string of the catch block for an Error with this message
errorProcessing(message, details) ==
  ErrorWord \o <<" ", "processing full pipeline suggestion: ">> \o message
    \o <<".", " ">> \o details

NotExpectedFormat ==
  <<"AI response is not in the expected JSON format. Key top-level fields might be missing or of the wrong type.">>

\* the checks on parsedData: reading a property of null throws a TypeError,
\* a missing or ill-typed field throws the format error
rejectedData(req, parsed) ==
  IF "object" \notin DOMAIN parsed
  THEN afterFailure(req, [text |-> errorProcessing(
         <<"Cannot read properties of null (reading 'pipelineName')">>,
         <<"Error details: Cannot read properties of null (reading 'pipelineName')">>)])
  ELSE afterFailure(req, [text |-> errorProcessing(NotExpectedFormat,
         <<"Error details: ">> \o NotExpectedFormat)])

\* acceptedData without the test of pipelineName
acceptedDataAnyName(parsed) ==
  /\ "object" \in DOMAIN parsed
  /\ isArray(field(parsed, "parameters"))
  /\ isArray(field(parsed, "processes"))
  /\ "undefined" \notin DOMAIN field(parsed, "workflowContent")

acceptedData(parsed) ==
  /\ "object" \in DOMAIN parsed
  /\ truthy(field(parsed, "pipelineName"))
  /\ isArray(field(parsed, "parameters"))
  /\ isArray(field(parsed, "processes"))
  /\ "undefined" \notin DOMAIN field(parsed, "workflowContent")

\* the try block from jsonStr on
parseSuggestion(req, jsonStr, parsed) ==
  IF ~parsed.ok
  THEN afterFailure(req, [text |-> errorProcessing(
         <<"Unexpected token">>,
         IF jsonStr # <<>>
         THEN <<"Raw Gemini Response (that failed parsing):", "\n">> \o jsonStr
         ELSE <<"Error details: Unexpected end of JSON input">>)])
  ELSE IF acceptedData(parsed.value)
  THEN afterResponse(req, [suggestion |-> parsed.value])
  ELSE rejectedData(req, parsed.value)

\* suggestFullNextflowPipeline after its call of generateContent has ended
suggestFullNextflowPipeline(req, outcome) ==
  IF outcome.kind = "text"
  THEN parseSuggestion(req, unfenced(trim(outcome.text)),
                       jsonParse(unfenced(trim(outcome.text))))
  ELSE IF outcome.kind = "error"
  THEN afterFailure(req, [text |-> errorProcessing(outcome.text,
                                     <<"Error details: ">> \o outcome.text)])
  ELSE afterFailure(req, [text |-> <<"A", "n", " ", "unknown error occurred while generating full pipeline suggestion: ">>])

\* the suggest function of a request
suggest(req, outcome) ==
  IF req.kind = "workflow" THEN suggestNextflowWorkflow(req, outcome)
  ELSE IF req.kind = "full" THEN suggestFullNextflowPipeline(req, outcome)
  ELSE suggestNextflowProcessParts(req, outcome)

(***************************************************************************)
(* App: the workflow suggestion, the Pipeline Genie and the ProcessEditor  *)
(* it opens.  A handler of App runs when its button can be clicked: the    *)
(* button is rendered, is not disabled and is not behind a modal.          *)
(***************************************************************************)
workflowAiVars == <<workflowGoalPrompt, suggestedWorkflowContent, isSuggestingWorkflow>>
genieVars == <<isGenieModalOpen, geniePipelineGoal, isGeneratingFullPipeline,
               fullPipelineSuggestion, genieError>>
\* what App keeps of the entry forms
formVars == <<editingProcess, isParamModalOpen, editingParam>>
editorVars == <<isProcessModalOpen, currentProc, geminiTaskDesc, geminiSuggestion,
                isSuggesting, formVars>>
pipelineVars == <<workflowContent, processes, pipelineMeta>>

\* the tabs the user opens: those of the two lists, of the workflow suggester
\* and of the preview (the Visualizer tab is the subject of Spec)
Tabs == {"Parameters", "Processes", "Workflow", "Preview"}

\* what the user types as a goal
Goals == {<<>>, <<" ">>, <<"q", "c">>}
\* what the task textarea of the editor is set to
TaskDescriptions == {<<>>, <<"q", "c">>}

\* the texts of the service's responses to a workflow request
WorkflowTexts ==
  {<<"A", "(", ")">>, <<>>, ErrorColon \o <<" ", "no processes">>}

\* the texts of the service's responses to a full-pipeline request
FullPipelineTexts ==
  {<<Fence, "json", "\n", "{pipeline}", "\n", Fence, "\n">>,
   <<Fence, Fence>>, <<"Sure! Here is your pipeline">>}
  \cup {<<doc>> : doc \in DOMAIN JsonDocuments}

\* the texts of the service's responses to a process request
ProcessTexts ==
  {<<Fence, "nextflow_", "input", "\n", "val x", "\n", Fence>>, <<>>}

responseTexts(kind) ==
  IF kind = "workflow" THEN WorkflowTexts
  ELSE IF kind = "full" THEN FullPipelineTexts
  ELSE ProcessTexts

\* the Modal covers the page
pageShown == ~isGenieModalOpen /\ ~isProcessModalOpen /\ ~isParamModalOpen

\* TabButton onClick
SetTab ==
  /\ pageShown
  /\ \E tab \in Tabs : tab # activeTab /\ activeTab' = tab
  /\ UNCHANGED <<pipelineVars, visVars, ai, workflowAiVars, genieVars,
                 editorVars, requests>>

\* onChange of the goal textarea of the Workflow tab
SetWorkflowGoalPrompt ==
  /\ pageShown
  /\ activeTab = "Workflow"
  /\ \E text \in Goals : text # workflowGoalPrompt /\ workflowGoalPrompt' = text
  /\ UNCHANGED <<pipelineVars, visVars, ai, activeTab, suggestedWorkflowContent,
                 isSuggestingWorkflow, genieVars, editorVars, requests>>

\* disabled of the 'Suggest Workflow Block with AI' button
suggestWorkflowDisabled ==
  isSuggestingWorkflow \/ trim(workflowGoalPrompt) = <<>>

\* handleSuggestWorkflow up to its await; without a client the awaited promise
\* is resolved already and the continuation runs before any other event
HandleSuggestWorkflow ==
  /\ pageShown
  /\ activeTab = "Workflow"
  /\ ~suggestWorkflowDisabled
  /\ trim(workflowGoalPrompt) # <<>>
  /\ Len(requests) < MaxRequests
  /\ IF newRequest("workflow", workflowGoalPrompt, ai).settled
     THEN /\ suggestedWorkflowContent'
               = newRequest("workflow", workflowGoalPrompt, ai).value.text
          /\ isSuggestingWorkflow' = FALSE
          /\ requests' = Append(requests,
                           delivered(newRequest("workflow", workflowGoalPrompt, ai)))
     ELSE /\ suggestedWorkflowContent' = <<>>
          /\ isSuggestingWorkflow' = TRUE
          /\ requests' = Append(requests,
                                newRequest("workflow", workflowGoalPrompt, ai))
  /\ UNCHANGED <<pipelineVars, visVars, ai, activeTab, workflowGoalPrompt,
                 genieVars, editorVars>>

\* the 'Apply Suggestion to Workflow Block' button is rendered
applyWorkflowShown ==
  suggestedWorkflowContent # <<>> /\ ~startsWith(suggestedWorkflowContent, ErrorColon)

\* applyWorkflowSuggestion
ApplyWorkflowSuggestion ==
  /\ pageShown
  /\ activeTab = "Workflow"
  /\ applyWorkflowShown
  /\ workflowContent' =
       IF suggestedWorkflowContent # <<>>
          /\ ~startsWith(suggestedWorkflowContent, ErrorColon)
       THEN suggestedWorkflowContent ELSE workflowContent
  /\ UNCHANGED <<processes, pipelineMeta, visVars, aiVars>>

\* handleOpenGenieModal
HandleOpenGenieModal ==
  /\ pageShown
  /\ geniePipelineGoal' = <<>>
  /\ fullPipelineSuggestion' = NullObject
  /\ genieError' = NullText
  /\ isGenieModalOpen' = TRUE
  /\ requests' = openedAnew(requests)
  /\ UNCHANGED <<pipelineVars, visVars, ai, activeTab, workflowAiVars,
                 isGeneratingFullPipeline, editorVars>>

\* onClose of the Genie modal
CloseGenieModal ==
  /\ isGenieModalOpen
  /\ isGenieModalOpen' = FALSE
  /\ UNCHANGED <<pipelineVars, visVars, ai, activeTab, workflowAiVars,
                 geniePipelineGoal, isGeneratingFullPipeline,
                 fullPipelineSuggestion, genieError, editorVars, requests>>

\* onChange of the goal textarea of the Genie modal
SetGeniePipelineGoal ==
  /\ isGenieModalOpen
  /\ \E text \in Goals : text # geniePipelineGoal /\ geniePipelineGoal' = text
  /\ UNCHANGED <<pipelineVars, visVars, ai, activeTab, workflowAiVars,
                 isGenieModalOpen, isGeneratingFullPipeline,
                 fullPipelineSuggestion, genieError, editorVars, requests>>

\* the button disabled by a blank goal alone
generateDisabledOnBlankGoal == trim(geniePipelineGoal) = <<>>

\* disabled of the 'Ask AI to Generate Pipeline' button
generateFullPipelineDisabled ==
  isGeneratingFullPipeline \/ trim(geniePipelineGoal) = <<>>

\* handleGenerateFullPipeline up to its await; without a client the awaited
\* promise is resolved already and the continuation runs before any other event
HandleGenerateFullPipeline ==
  /\ isGenieModalOpen
  /\ ~generateFullPipelineDisabled
  /\ trim(geniePipelineGoal) # <<>>
  /\ Len(requests) < MaxRequests
  /\ fullPipelineSuggestion' = NullObject
  /\ IF newRequest("full", geniePipelineGoal, ai).settled
     THEN /\ genieError' = newRequest("full", geniePipelineGoal, ai).value.text
          /\ isGeneratingFullPipeline' = FALSE
          /\ requests' = Append(requests,
                           delivered(newRequest("full", geniePipelineGoal, ai)))
     ELSE /\ genieError' = NullText
          /\ isGeneratingFullPipeline' = TRUE
          /\ requests' = Append(requests, newRequest("full", geniePipelineGoal, ai))
  /\ UNCHANGED <<pipelineVars, visVars, ai, activeTab, workflowAiVars,
                 isGenieModalOpen, geniePipelineGoal, editorVars>>

\* handleSuggestWorkflow after its await
workflowContinuation(req) ==
  /\ suggestedWorkflowContent' = req.value.text
  /\ isSuggestingWorkflow' = FALSE
  /\ UNCHANGED <<workflowGoalPrompt, genieVars, editorVars>>

\* handleGenerateFullPipeline after its await
fullPipelineContinuation(req) ==
  /\ IF "text" \in DOMAIN req.value
     THEN genieError' = req.value.text /\ UNCHANGED fullPipelineSuggestion
     ELSE fullPipelineSuggestion' = req.value.suggestion /\ UNCHANGED genieError
  /\ isGeneratingFullPipeline' = FALSE
  /\ UNCHANGED <<workflowAiVars, isGenieModalOpen, geniePipelineGoal, editorVars>>

\* handleGeminiSuggest after its await; the setters of an unmounted editor do
\* nothing
geminiContinuation(req) ==
  /\ IF isProcessModalOpen
     THEN geminiSuggestion' = req.value.text /\ isSuggesting' = FALSE
     ELSE UNCHANGED <<geminiSuggestion, isSuggesting>>
  /\ UNCHANGED <<workflowAiVars, genieVars, isProcessModalOpen, currentProc,
                 geminiTaskDesc, formVars>>

\* request i is now req: a settled promise resumes the handler that awaits it
resume(i, req) ==
  IF ~req.settled
  THEN /\ requests' = [requests EXCEPT ![i] = req]
       /\ UNCHANGED <<workflowAiVars, genieVars, editorVars>>
  ELSE /\ requests' = [requests EXCEPT ![i] = delivered(req)]
       /\ IF req.kind = "workflow" THEN workflowContinuation(req)
          ELSE IF req.kind = "full" THEN fullPipelineContinuation(req)
          ELSE geminiContinuation(req)

\* The call of generateContent of a pending request ends: the suggest function
\* returns and the handler that awaits it goes on.
GenerateContentSettles ==
  /\ \E i \in 1..Len(requests) :
       /\ ~requests[i].settled
       /\ \E outcome \in outcomesOf(responseTexts(requests[i].kind)) :
            resume(i, suggest(requests[i], outcome))
  /\ UNCHANGED <<pipelineVars, visVars, ai, activeTab>>

(***************************************************************************)
(* applyFullPipelineSuggestion.                                            *)
(***************************************************************************)
\* the value of Date.now() while one suggestion is applied (the entries of an
\* earlier application are all replaced) and the values of the Math.random()
\* suffix
Times == {"t1"}
Randoms == {"r1", "r2"}

\* .filter(p => p && typeof p === 'object')
objectsOf(seq) == SelectSeq(seq, LAMBDA p : "object" \in DOMAIN p)

\* .replace(/\s+/g, '_')
RECURSIVE replaceSpaceRuns(_)
replaceSpaceRuns(s) ==
  IF s = <<>> THEN <<>>
  ELSE IF Head(s) \in WhiteSpace THEN <<"_">> \o replaceSpaceRuns(trimStart(s))
  ELSE <<Head(s)>> \o replaceSpaceRuns(Tail(s))

\* toUpperCase, on the letters of the model's names
toUpperCase(s) ==
  [i \in 1..Len(s) |->
     IF s[i] = "a" THEN "A" ELSE IF s[i] = "b" THEN "B"
     ELSE IF s[i] = "c" THEN "C" ELSE s[i]]

\* .replace(/[^A-Z0-9_]/g, ''), on the model's alphabet
keepNameChars(s) ==
  SelectSeq(s, LAMBDA c : c \in {"A", "B", "C", "X", "_", "0", "1", "2"})

indexDigit(index) == <<"0", "1", "2">>[index + 1]

isValidParamType(type) ==
  /\ "string" \in DOMAIN type
  /\ type.string \in {<<"string">>, <<"integer">>, <<"boolean">>, <<"path">>,
                      <<"file">>, <<"directory">>}

newParam(p, index, now, random) ==
  [id |-> [prefix |-> "param", now |-> now, index |-> index, random |-> random],
   name |-> replaceSpaceRuns(trim(stringOr(field(p, "name"),
                                           <<"p", "a", "r", "a", "m", "_", indexDigit(index)>>))),
   defaultValue |-> stringOr(field(p, "defaultValue"), <<>>),
   description |-> stringOr(field(p, "description"), <<>>),
   type |-> IF isValidParamType(field(p, "type")) THEN field(p, "type").string
            ELSE <<"string">>]

newProc(p, index, now, random) ==
  [id |-> [prefix |-> "proc", now |-> now, index |-> index, random |-> random],
   name |-> keepNameChars(replaceSpaceRuns(toUpperCase(trim(
              stringOr(field(p, "name"),
                       <<"P", "R", "O", "C", "E", "S", "S", "_", indexDigit(index)>>))))),
   description |-> stringOr(field(p, "description"), <<>>),
   inputDeclarations |-> stringOr(field(p, "inputDeclarations"), <<>>),
   outputDeclarations |-> stringOr(field(p, "outputDeclarations"), <<>>),
   directiveDeclarations |-> stringOr(field(p, "directiveDeclarations"), <<>>),
   script |-> stringOr(field(p, "script"), <<>>)]

\* (array || []).filter(...).map(...)
newParams(entries, now, random) ==
  [i \in 1..Len(entries) |-> newParam(entries[i], i - 1, now, random[i])]

newProcs(entries, now, random) ==
  [i \in 1..Len(entries) |-> newProc(entries[i], i - 1, now, random[i])]

CannotApply ==
  <<"Cannot apply: No suggestion data available. Please generate a suggestion first.">>

\* the card with the 'Apply This Suggestion' button is rendered
applyFullShown == fullPipelineSuggestion # NullObject /\ genieError = NullText

\* overwritePipeline with the mapped processes added to the current ones
extendPipeline(s, params, procs) ==
  /\ pipelineMeta' =
       [pipelineMeta EXCEPT
          !.name = stringOr(field(s, "pipelineName"), @),
          !.description = stringOr(field(s, "pipelineDescription"), @),
          !.version = stringOr(field(s, "pipelineVersion"), @),
          !.parameters = params]
  /\ processes' = processes \o procs
  /\ workflowContent' = stringOr(field(s, "workflowContent"), workflowContent)
  /\ isGenieModalOpen' = FALSE
  /\ fullPipelineSuggestion' = NullObject
  /\ geniePipelineGoal' = <<>>
  /\ activeTab' = "Preview"
  /\ UNCHANGED genieError

\* the try block of applyFullPipelineSuggestion for the suggestion s
overwritePipeline(s, params, procs) ==
  /\ pipelineMeta' =
       [pipelineMeta EXCEPT
          !.name = stringOr(field(s, "pipelineName"), @),
          !.description = stringOr(field(s, "pipelineDescription"), @),
          !.version = stringOr(field(s, "pipelineVersion"), @),
          !.parameters = params]
  /\ processes' = procs
  /\ workflowContent' = stringOr(field(s, "workflowContent"), workflowContent)
  /\ isGenieModalOpen' = FALSE
  /\ fullPipelineSuggestion' = NullObject
  /\ geniePipelineGoal' = <<>>
  /\ activeTab' = "Preview"
  /\ UNCHANGED genieError

\* the entries of the stored suggestion that are mapped
suggestedParameters ==
  objectsOf(field(fullPipelineSuggestion, "parameters").array)
suggestedProcesses ==
  objectsOf(field(fullPipelineSuggestion, "processes").array)

ApplyFullPipelineSuggestion ==
  /\ isGenieModalOpen
  /\ applyFullShown
  /\ IF fullPipelineSuggestion = NullObject
     THEN /\ genieError' = CannotApply
          /\ UNCHANGED <<pipelineVars, activeTab, isGenieModalOpen,
                         geniePipelineGoal, fullPipelineSuggestion>>
     ELSE \E now \in Times :
            \E randomP \in [1..Len(suggestedParameters) -> Randoms],
               randomQ \in [1..Len(suggestedProcesses) -> Randoms] :
              overwritePipeline(fullPipelineSuggestion,
                                newParams(suggestedParameters, now, randomP),
                                newProcs(suggestedProcesses, now, randomQ))
  /\ UNCHANGED <<visVars, ai, workflowAiVars, isGeneratingFullPipeline,
                 editorVars, requests>>

(***************************************************************************)
(* The ProcessEditor App opens, through its handlers.  App renders         *)
(* <ProcessEditor process onSave onCancel /> without the isApiConfigured   *)
(* prop.                                                                   *)
(***************************************************************************)
\* the isApiConfigured prop of the editor: undefined
isApiConfigured == FALSE

\* disabled of the task textarea and of the suggest button of the editor
taskTextareaDisabled == ~isApiConfigured
geminiSuggestDisabled ==
  isSuggesting \/ trim(geminiTaskDesc) = <<>> \/ ~isApiConfigured

AiFeaturesDisabled ==
  <<"A", "I", " ", "features are disabled. API Key not configured.">>

\* a ProcessEditor that has just mounted, or has unmounted
editorReset ==
  /\ currentProc' = initialProcessState
  /\ geminiTaskDesc' = <<>>
  /\ geminiSuggestion' = <<>>
  /\ isSuggesting' = FALSE

\* 'Add New Process' of the Processes tab
OpenProcessEditor ==
  /\ pageShown
  /\ activeTab = "Processes"
  /\ editingProcess' = NullEntry
  /\ isProcessModalOpen' = TRUE
  /\ editorReset
  /\ UNCHANGED <<pipelineVars, visVars, ai, activeTab, workflowAiVars,
                 genieVars, isParamModalOpen, editingParam, requests>>

\* onClose of the modal and onCancel of the editor
CloseProcessEditor ==
  /\ isProcessModalOpen
  /\ isProcessModalOpen' = FALSE
  /\ editingProcess' = NullEntry
  /\ editorReset
  /\ UNCHANGED <<pipelineVars, visVars, ai, activeTab, workflowAiVars,
                 genieVars, isParamModalOpen, editingParam, requests>>

\* onChange of the task textarea
SetGeminiTaskDesc ==
  /\ isProcessModalOpen
  /\ \E text \in TaskDescriptions :
       text # geminiTaskDesc /\ geminiTaskDesc' = text
  /\ UNCHANGED <<pipelineVars, visVars, ai, activeTab, workflowAiVars,
                 genieVars, isProcessModalOpen, currentProc, geminiSuggestion,
                 isSuggesting, formVars, requests>>

\* handleGeminiSuggest up to its await
HandleGeminiSuggest ==
  /\ isProcessModalOpen
  /\ Len(requests) < MaxRequests
  /\ IF ~isApiConfigured
     THEN /\ geminiSuggestion' = AiFeaturesDisabled
          /\ requests' = Append(requests, notRequested("process", geminiTaskDesc))
          /\ UNCHANGED isSuggesting
     ELSE IF trim(geminiTaskDesc) = <<>>
     THEN UNCHANGED <<geminiSuggestion, isSuggesting, requests>>
     ELSE IF newRequest("process", geminiTaskDesc, ai).settled
     THEN /\ geminiSuggestion' = newRequest("process", geminiTaskDesc, ai).value.text
          /\ isSuggesting' = FALSE
          /\ requests' = Append(requests,
                           delivered(newRequest("process", geminiTaskDesc, ai)))
     ELSE /\ geminiSuggestion' = <<>>
          /\ isSuggesting' = TRUE
          /\ requests' = Append(requests, newRequest("process", geminiTaskDesc, ai))
  /\ UNCHANGED <<pipelineVars, visVars, ai, activeTab, workflowAiVars,
                 genieVars, isProcessModalOpen, currentProc, geminiTaskDesc,
                 formVars>>

\* the places of the fenced blocks nextflow_<blockName> of a suggestion
blockStarts(s, blockName) ==
  {i \in 1..Len(s) - 3 :
     /\ s[i] = Fence /\ s[i + 1] = "nextflow_" /\ s[i + 2] = blockName
     /\ \E j \in i + 3..Len(s) : s[j] = Fence}

least(S) == CHOOSE i \in S : \A j \in S : i <= j

\* extractBlock, for the blocks other than script
extractBlock(s, blockName) ==
  IF blockStarts(s, blockName) = {} THEN <<>>
  ELSE trim(SubSeq(s, least(blockStarts(s, blockName)) + 3,
                   least({j \in least(blockStarts(s, blockName)) + 3..Len(s) :
                            s[j] = Fence}) - 1))

\* the parts applySuggestionPart is called with and their blocks
SuggestionParts ==
  {[part |-> "inputDeclarations", block |-> "input"],
   [part |-> "outputDeclarations", block |-> "output"],
   [part |-> "directiveDeclarations", block |-> "directive"]}

\* applySuggestionPart
ApplySuggestionPart ==
  /\ isProcessModalOpen
  /\ \E p \in SuggestionParts :
       currentProc' =
         IF geminiSuggestion = <<>> \/ startsWith(geminiSuggestion, ErrorColon)
         THEN currentProc
         ELSE IF extractBlock(geminiSuggestion, p.block) # <<>>
         THEN [currentProc EXCEPT ![p.part] = extractBlock(geminiSuggestion, p.block)]
         ELSE currentProc
  /\ UNCHANGED <<pipelineVars, visVars, ai, activeTab, workflowAiVars,
                 genieVars, isProcessModalOpen, geminiTaskDesc, geminiSuggestion,
                 isSuggesting, formVars, requests>>

(***************************************************************************)
(* The AI features, with and without a client.                             *)
(***************************************************************************)
initialWorkflowContent == <<"/", "/", " ", "Example: ...">>

InitAI ==
  /\ workflowContent = initialWorkflowContent
  /\ processes = <<>>
  /\ canvasSizeForLayout = DefaultCanvas
  /\ mounted = FALSE
  /\ visData = EmptyVisData
  /\ canvasSize = DefaultCanvas
  /\ errorVisualizing = Null
  /\ layoutLog = <<>>
  /\ ai \in BOOLEAN
  /\ AppIdle

NextAI ==
  \/ SetTab
  \/ SetWorkflowGoalPrompt
  \/ HandleSuggestWorkflow
  \/ ApplyWorkflowSuggestion
  \/ HandleOpenGenieModal
  \/ CloseGenieModal
  \/ SetGeniePipelineGoal
  \/ HandleGenerateFullPipeline
  \/ ApplyFullPipelineSuggestion
  \/ GenerateContentSettles
  \/ OpenProcessEditor
  \/ CloseProcessEditor
  \/ SetGeminiTaskDesc
  \/ HandleGeminiSuggest
  \/ ApplySuggestionPart

SpecAI == InitAI /\ [][NextAI]_vars

(***************************************************************************)
(* The lists of parameters and processes: the Add, Edit and Delete buttons *)
(* of the Parameters and Processes tabs, the two editors and App's save    *)
(* and delete handlers.  What the user types into a form is chosen when    *)
(* the form is submitted, and so is the id a new entry got when its editor *)
(* mounted.                                                                *)
(***************************************************************************)
\* the names typed into the name field
Names == {<<>>, <<"A">>, <<" ", "A">>, <<"B">>}

\* Date.now().toString() + Math.random().toString(36).substring(2, 7)
editorId(now, random) == [now |-> now, random |-> random]

\* list.findIndex(p => p.id === id), from 1; 0 for -1
findIndex(list, id) ==
  IF \A i \in 1..Len(list) : list[i].id # id THEN 0
  ELSE least({i \in 1..Len(list) : list[i].id = id})

\* the updater of handleAddOrUpdateParameter and of handleAddOrUpdateProcess
\* without findIndex: the entry is always added
alwaysAppend(list, entry) == Append(list, entry)

\* the updater of handleAddOrUpdateParameter and of handleAddOrUpdateProcess
addOrUpdate(list, entry) ==
  IF findIndex(list, entry.id) > 0
  THEN [list EXCEPT ![findIndex(list, entry.id)] = entry]
  ELSE Append(list, entry)

\* list.filter(p => p.id !== id)
withoutId(list, id) == SelectSeq(list, LAMBDA p : p.id # id)

\* handleEditProcess; the mounting editor takes the process over
HandleEditProcess ==
  /\ pageShown
  /\ activeTab = "Processes"
  /\ \E i \in 1..Len(processes) :
       /\ editingProcess' = processes[i]
       /\ currentProc' = [f \in DOMAIN initialProcessState |-> processes[i][f]]
  /\ isProcessModalOpen' = TRUE
  /\ geminiTaskDesc' = <<>>
  /\ geminiSuggestion' = <<>>
  /\ isSuggesting' = FALSE
  /\ UNCHANGED <<pipelineVars, visVars, ai, activeTab, workflowAiVars,
                 genieVars, isParamModalOpen, editingParam, requests>>

\* the process the editor submits: currentProc with the id of the process
\* under edit, or the id made at mount, and the trimmed name
submittedProcess(name, now, random) ==
  [id |-> IF editingProcess = NullEntry THEN editorId(now, random)
          ELSE editingProcess.id,
   name |-> trim(name),
   inputDeclarations |-> currentProc.inputDeclarations,
   outputDeclarations |-> currentProc.outputDeclarations,
   directiveDeclarations |-> currentProc.directiveDeclarations,
   script |-> currentProc.script]

\* handleSubmit of the ProcessEditor and handleAddOrUpdateProcess
HandleSubmitProcess ==
  /\ isProcessModalOpen
  /\ \E name \in Names, now \in Times, random \in Randoms :
       IF trim(name) = <<>>
       THEN UNCHANGED <<processes, editorVars>>
       ELSE /\ processes' = addOrUpdate(processes,
                                        submittedProcess(name, now, random))
            /\ isProcessModalOpen' = FALSE
            /\ editingProcess' = NullEntry
            /\ editorReset
            /\ UNCHANGED <<isParamModalOpen, editingParam>>
  /\ UNCHANGED <<workflowContent, pipelineMeta, visVars, ai, activeTab,
                 workflowAiVars, genieVars, requests>>

\* handleDeleteProcess, with the answer to window.confirm
HandleDeleteProcess ==
  /\ pageShown
  /\ activeTab = "Processes"
  /\ \E i \in 1..Len(processes), confirmed \in BOOLEAN :
       processes' = IF confirmed THEN withoutId(processes, processes[i].id)
                    ELSE processes
  /\ UNCHANGED <<workflowContent, pipelineMeta, visVars, aiVars>>

\* 'Add Parameter' of the Parameters tab
OpenParameterEditor ==
  /\ pageShown
  /\ activeTab = "Parameters"
  /\ editingParam' = NullEntry
  /\ isParamModalOpen' = TRUE
  /\ UNCHANGED <<pipelineVars, visVars, ai, activeTab, workflowAiVars,
                 genieVars, isProcessModalOpen, currentProc, geminiTaskDesc,
                 geminiSuggestion, isSuggesting, editingProcess, requests>>

\* handleEditParameter
HandleEditParameter ==
  /\ pageShown
  /\ activeTab = "Parameters"
  /\ \E i \in 1..Len(pipelineMeta.parameters) :
       editingParam' = pipelineMeta.parameters[i]
  /\ isParamModalOpen' = TRUE
  /\ UNCHANGED <<pipelineVars, visVars, ai, activeTab, workflowAiVars,
                 genieVars, isProcessModalOpen, currentProc, geminiTaskDesc,
                 geminiSuggestion, isSuggesting, editingProcess, requests>>

\* onClose of the modal and onCancel of the ParameterEditor
CloseParameterEditor ==
  /\ isParamModalOpen
  /\ isParamModalOpen' = FALSE
  /\ editingParam' = NullEntry
  /\ UNCHANGED <<pipelineVars, visVars, ai, activeTab, workflowAiVars,
                 genieVars, isProcessModalOpen, currentProc, geminiTaskDesc,
                 geminiSuggestion, isSuggesting, editingProcess, requests>>

\* the parameter the editor submits: the name as typed
submittedParameter(name, now, random) ==
  [id |-> IF editingParam = NullEntry THEN editorId(now, random)
          ELSE editingParam.id,
   name |-> name, defaultValue |-> <<>>, description |-> <<>>,
   type |-> <<"string">>]

\* handleSubmit of the ParameterEditor and handleAddOrUpdateParameter
HandleSubmitParameter ==
  /\ isParamModalOpen
  /\ \E name \in Names, now \in Times, random \in Randoms :
       IF trim(name) = <<>>
       THEN UNCHANGED <<pipelineMeta, isParamModalOpen, editingParam>>
       ELSE /\ pipelineMeta' =
                 [pipelineMeta EXCEPT
                    !.parameters = addOrUpdate(@, submittedParameter(name, now, random))]
            /\ isParamModalOpen' = FALSE
            /\ editingParam' = NullEntry
  /\ UNCHANGED <<workflowContent, processes, visVars, ai, activeTab,
                 workflowAiVars, genieVars, isProcessModalOpen, currentProc,
                 geminiTaskDesc, geminiSuggestion, isSuggesting, editingProcess,
                 requests>>

\* handleDeleteParameter, with the answer to window.confirm
HandleDeleteParameter ==
  /\ pageShown
  /\ activeTab = "Parameters"
  /\ \E i \in 1..Len(pipelineMeta.parameters), confirmed \in BOOLEAN :
       pipelineMeta' =
         [pipelineMeta EXCEPT
            !.parameters = IF confirmed
                           THEN withoutId(@, pipelineMeta.parameters[i].id)
                           ELSE @]
  /\ UNCHANGED <<workflowContent, processes, visVars, ai, activeTab,
                 workflowAiVars, genieVars, editorVars, requests>>

NextEdit ==
  \/ SetTab
  \/ OpenProcessEditor
  \/ HandleEditProcess
  \/ CloseProcessEditor
  \/ HandleSubmitProcess
  \/ HandleDeleteProcess
  \/ OpenParameterEditor
  \/ HandleEditParameter
  \/ CloseParameterEditor
  \/ HandleSubmitParameter
  \/ HandleDeleteParameter

SpecEdit == InitAI /\ [][NextEdit]_vars

(***************************************************************************)
(* Vocabulary of the claims, defined on the text and on the result, apart  *)
(* from the scanners above.                                                *)
(***************************************************************************)
declaredNames == {processes[i].name : i \in 1..Len(processes)}

\* an identifier begins at i
identifierStart(s, i) ==
  /\ i \in 1..Len(s)
  /\ isWordChar(s[i])
  /\ (i = 1 \/ ~isWordChar(s[i - 1]))

\* the last character of the identifier that begins at i
identifierLast(s, i) ==
  CHOOSE e \in i..Len(s) :
    /\ \A k \in i..e : isWordChar(s[k])
    /\ (e = Len(s) \/ ~isWordChar(s[e + 1]))

\* the identifier that begins at i
identifierAt(s, i) == SubSeq(s, i, identifierLast(s, i))

\* where the text goes on after the identifier at i and the spaces behind it
afterIdentifier(s, i) ==
  CHOOSE p \in identifierLast(s, i) + 1..Len(s) + 1 :
    /\ \A k \in identifierLast(s, i) + 1..p - 1 : s[k] \in SpaceChars
    /\ (p > Len(s) \/ s[p] \notin SpaceChars)

\* an identifier(...) construct begins at i: an identifier, an open
\* parenthesis and, somewhere behind it, a close parenthesis
constructAt(s, i) ==
  /\ identifierStart(s, i)
  /\ afterIdentifier(s, i) <= Len(s)
  /\ s[afterIdentifier(s, i)] = "("
  /\ \E c \in afterIdentifier(s, i) + 1..Len(s) : s[c] = ")"

openOf(s, i) == afterIdentifier(s, i)
\* the first close parenthesis behind the open parenthesis of the construct at i
closeOf(s, i) ==
  CHOOSE c \in openOf(s, i) + 1..Len(s) :
    s[c] = ")" /\ \A k \in openOf(s, i) + 1..c - 1 : s[k] # ")"

\* a textual occurrence of a call of a declared process begins at i
callOccurrence(s, i) == constructAt(s, i) /\ identifierAt(s, i) \in declaredNames

\* the positions of a set, in increasing order
RECURSIVE ascending(_)
ascending(S) ==
  IF S = {} THEN <<>>
  ELSE LET m == CHOOSE x \in S : \A y \in S : x <= y
       IN <<m>> \o ascending(S \ {m})

\* i lies inside the parentheses of a construct that begins before it and
\* does not itself lie inside another: the constructs scanned left to right
RECURSIVE enclosed(_, _)
enclosed(s, i) ==
  \E j \in 1..i - 1 : constructAt(s, j) /\ ~enclosed(s, j) /\ i <= closeOf(s, j)

callOf(s, i) ==
  [name |-> identifierAt(s, i),
   inputs |-> SubSeq(s, openOf(s, i) + 1, closeOf(s, i) - 1)]

callsAt(s, positions) ==
  [k \in 1..Len(positions) |->
     [name |-> callOf(s, positions[k]).name,
      callId |-> <<callOf(s, positions[k]).name, k - 1>>,
      inputs |-> callOf(s, positions[k]).inputs]]

\* a reference token P.out begins at i of an argument text: an identifier that
\* is not a member name (no dot before it), followed by .out
referenceAt(a, i) ==
  /\ identifierStart(a, i)
  /\ (i = 1 \/ a[i - 1] # ".")
  /\ hasLiteral(a, i + Len(identifierAt(a, i)), DotOut)

\* the processes an argument text references
referencedIn(a) ==
  {identifierAt(a, i) : i \in {j \in 1..Len(a) : referenceAt(a, j)}}

theCalls == calledProcessInstances(workflowContent, processes)
theGraph == dependencyGraph(workflowContent, processes)

nodeById(nodes, id) == CHOOSE n \in nodeMapGet(nodes, id) : TRUE
edgePairs(edges) == {<<edges[k].source, edges[k].target>> : k \in 1..Len(edges)}

\* the layer index of a placed node
layerIndex(layers, id) == (CHOOSE p \in layerOf(layers, id) : TRUE)[1] - 1
hasLayer(layers, id) == layerOf(layers, id) # {}

\* what can be reached from S along at most n edges
RECURSIVE reachable(_, _, _)
reachable(E, S, n) ==
  IF n = 0 THEN S
  ELSE reachable(E, S \cup {e[2] : e \in {d \in E : d[1] \in S}}, n - 1)

onCycle(E, a) ==
  a \in reachable(E, {e[2] : e \in {d \in E : d[1] = a}}, Cardinality(E))

acyclic(E) == \A e \in E : ~onCycle(E, e[1])

\* a layout pass has run on the current inputs and its result is shown
laidOut == mounted /\ isString(workflowContent)

(***************************************************************************)
(* Claims.                                                                 *)
(***************************************************************************)

\* C1 (as stated): when the inferred dependency graph contains a cycle, no
\* process on the cycle is among the nodes parseWorkflow returns.
C1_CycleNodesOmitted ==
  laidOut =>
    LET E == edgePairs(visData.edges)
    IN \A k \in 1..Len(visData.nodes) : ~onCycle(E, visData.nodes[k].id)

\* C2 (as stated): two layout passes on identical workflowContent and
\* processes yield identical nodes (coordinates) and identical edges (start,
\* end and control points), whatever passes ran before.
C2_SameInputsSameLayout ==
  \A i, j \in 1..Len(layoutLog) :
    (/\ layoutLog[i].workflowContent = layoutLog[j].workflowContent
     /\ layoutLog[i].processes = layoutLog[j].processes)
    => /\ layoutLog[i].nodes = layoutLog[j].nodes
       /\ layoutLog[i].edges = layoutLog[j].edges

\* C3 (as stated): if the inferred dependency graph is acyclic, the target of
\* every inferred edge has a layer index strictly greater than the layer index
\* of the source, and so a strictly greater y.
C3_TargetBelowSource ==
  (laidOut /\ acyclic(edgePairs(visData.edges))) =>
    LET layers == theGraph.layers
    IN \A k \in 1..Len(visData.edges) :
         LET e == visData.edges[k]
         IN /\ hasLayer(layers, e.source)
            /\ hasLayer(layers, e.target)
            /\ layerIndex(layers, e.target) > layerIndex(layers, e.source)
            /\ nodeById(visData.nodes, e.target).y
                 > nodeById(visData.nodes, e.source).y

\* C4: the returned nodes are, one each, the declared process names that occur
\* in an extracted call: no two nodes share an id, every called name has a
\* node, and a declared process that is never called has none.
C4_OneNodePerCalledProcess ==
  laidOut =>
    LET calls == theCalls
        ids == nodeIds(visData.nodes)
    IN /\ \A i, j \in 1..Len(visData.nodes) :
            visData.nodes[i].id = visData.nodes[j].id => i = j
       /\ ids = {calls[k].name : k \in 1..Len(calls)}
       /\ ids \subseteq declaredNames
       /\ ids \subseteq {identifierAt(workflowContent, p) :
                           p \in {q \in 1..Len(workflowContent) :
                                    callOccurrence(workflowContent, q)}}

\* a process is called more than once and a declared process is never called
C4_Witness ==
  /\ laidOut
  /\ Len(theCalls) > Len(visData.nodes)
  /\ Len(visData.nodes) > 0
  /\ declaredNames \ nodeIds(visData.nodes) # {}

\* the reference tokens, in all calls of target, that name a declared process
\* other than target
sourcesOf(calls, target) ==
  UNION {referencedIn(calls[k].inputs) \cap (declaredNames \ {target}) :
         k \in {c \in 1..Len(calls) : calls[c].name = target}}

\* C5: there is at most one edge per ordered (source, target) pair, and the
\* in-degree of a target counts its distinct sources: a repeated reference
\* adds no edge and leaves the in-degree as it is.
C5_OneEdgePerPair ==
  laidOut =>
    LET g == theGraph
    IN /\ \A i, j \in 1..Len(visData.edges) :
            (/\ visData.edges[i].source = visData.edges[j].source
             /\ visData.edges[i].target = visData.edges[j].target) => i = j
       /\ \A t \in nodeIds(visData.nodes) :
            /\ g.inDegree[t] = Cardinality(sourcesOf(g.calls, t))
            /\ g.inDegree[t] = Cardinality({k \in 1..Len(visData.edges) :
                                              visData.edges[k].target = t})

\* the positions of the reference tokens of an argument text
referencePositions(a) == {i \in 1..Len(a) : referenceAt(a, i)}

\* a source is referenced twice in one call of a target
C5_Witness ==
  /\ laidOut
  /\ LET calls == theCalls
         E == edgePairs(visData.edges)
     IN \E k \in 1..Len(calls) :
          \E i, j \in referencePositions(calls[k].inputs) :
            /\ i < j
            /\ identifierAt(calls[k].inputs, i) = identifierAt(calls[k].inputs, j)
            /\ <<identifierAt(calls[k].inputs, i), calls[k].name>> \in E

\* a source is referenced in two calls of a target
C5_WitnessLaterCall ==
  /\ laidOut
  /\ LET calls == theCalls
         E == edgePairs(visData.edges)
     IN \E e \in E : \E k1, k2 \in 1..Len(calls) :
          /\ k1 < k2
          /\ calls[k1].name = e[2] /\ calls[k2].name = e[2]
          /\ e[1] \in referencedIn(calls[k1].inputs)
          /\ e[1] \in referencedIn(calls[k2].inputs)

\* C6: no returned edge has its source equal to its target, and a process
\* whose calls reference no other declared process (they may reference the
\* process itself) has in-degree 0 and is placed in the first layer.
C6_NoSelfLoop ==
  laidOut =>
    LET g == theGraph
    IN /\ \A k \in 1..Len(visData.edges) :
            visData.edges[k].source # visData.edges[k].target
       /\ \A t \in nodeIds(visData.nodes) :
            sourcesOf(g.calls, t) = {} =>
              /\ g.inDegree[t] = 0
              /\ hasLayer(g.layers, t)
              /\ layerIndex(g.layers, t) = 0
              /\ nodeById(visData.nodes, t).y = px(Y_SPACING)
              /\ nodeById(visData.nodes, t).x >= px(X_SPACING)

\* a call references the output of its own process, and that process is placed
C6_Witness ==
  /\ laidOut
  /\ LET calls == theCalls
     IN \E k \in 1..Len(calls) :
          /\ calls[k].name \in referencedIn(calls[k].inputs)
          /\ sourcesOf(calls, calls[k].name) = {}
          /\ nodeById(visData.nodes, calls[k].name).y = px(Y_SPACING)

\* C7: a name that no process of the processes list has is no node id, no edge
\* source and no edge target of the result.
C7_OnlyDeclaredNames ==
  laidOut =>
    /\ \A k \in 1..Len(visData.nodes) : visData.nodes[k].id \in declaredNames
    /\ \A k \in 1..Len(visData.edges) :
         /\ visData.edges[k].source \in declaredNames
         /\ visData.edges[k].target \in declaredNames

\* an undeclared name stands in call position and, in the arguments of a call
\* of a declared process, in reference position
C7_Witness ==
  /\ laidOut
  /\ \E p \in 1..Len(workflowContent) :
       /\ constructAt(workflowContent, p)
       /\ ~enclosed(workflowContent, p)
       /\ identifierAt(workflowContent, p) \notin declaredNames
  /\ LET calls == theCalls
     IN \E k \in 1..Len(calls) :
          referencedIn(calls[k].inputs) \ declaredNames # {}
  /\ Len(visData.nodes) > 0

\* the text holds no call of a declared process
noDeclaredCall ==
  \A p \in 1..Len(workflowContent) : ~callOccurrence(workflowContent, p)

\* C8: a workflow source that is not a string, is empty or holds no call of a
\* declared process gives no node and no edge, and no error.
C8_NothingToShow ==
  (mounted /\ (~isString(workflowContent) \/ workflowContent = <<>>
               \/ noDeclaredCall)) =>
    /\ visData = EmptyVisData
    /\ errorVisualizing = Null

\* the text is not empty and calls only identifiers that are no declared process
C8_Witness ==
  /\ laidOut
  /\ noDeclaredCall
  /\ \E p \in 1..Len(workflowContent) : constructAt(workflowContent, p)
  /\ declaredNames # {}
  /\ visData = EmptyVisData

\* the source is not a string
C8_WitnessNotAString ==
  mounted /\ ~isString(workflowContent) /\ visData = EmptyVisData

\* C9 (as stated): the extracted calls are, in left-to-right order, all textual
\* occurrences of a declared process name followed by a parenthesized argument
\* list, also those inside the parentheses of another construct.
C9_EveryOccurrenceExtracted ==
  laidOut =>
    theCalls = callsAt(workflowContent,
                 ascending({p \in 1..Len(workflowContent) :
                              callOccurrence(workflowContent, p)}))

\* C9 (amended): the extracted calls are, in left-to-right order, the
\* occurrences that do not lie inside the parentheses (from the open
\* parenthesis to the first close parenthesis behind it) of an earlier
\* identifier(...) construct; an occurrence inside them is not extracted.
C9_TopLevelOccurrencesExtracted ==
  laidOut =>
    theCalls = callsAt(workflowContent,
                 ascending({p \in 1..Len(workflowContent) :
                              /\ callOccurrence(workflowContent, p)
                              /\ ~enclosed(workflowContent, p)}))

\* a call of a declared process lies inside the parentheses of another
\* construct, and a call is extracted
C9_Witness ==
  /\ laidOut
  /\ \E p \in 1..Len(workflowContent) :
       callOccurrence(workflowContent, p) /\ enclosed(workflowContent, p)
  /\ Len(theCalls) > 0

\* C10: for every extracted call c and every reference token P.out or
\* P.out.field in its arguments with P declared and other than c's process,
\* the edge P -> c.processName is returned, whether or not P is called.
C10_EveryReferenceIsAnEdge ==
  laidOut =>
    LET calls == theCalls
        E == edgePairs(visData.edges)
        ids == {visData.edges[e].id : e \in 1..Len(visData.edges)}
    IN \A k \in 1..Len(calls) :
         \A P \in referencedIn(calls[k].inputs) :
           (P \in declaredNames /\ P # calls[k].name) =>
             /\ <<P, calls[k].name>> \in E
             /\ edgeId(P, calls[k].name) \in ids

\* a call references P.out.field of a declared process P that is never called
C10_Witness ==
  /\ laidOut
  /\ LET calls == theCalls
     IN \E k \in 1..Len(calls) : \E i \in referencePositions(calls[k].inputs) :
          LET a == calls[k].inputs
              P == identifierAt(a, i)
          IN /\ P \in declaredNames \ nodeIds(visData.nodes)
             /\ hasLiteral(a, i + Len(P), DotOut \o <<".", "f">>)
             /\ <<P, calls[k].name>> \in edgePairs(visData.edges)

\* the last layout pass; it describes the mounted component
lastPass == layoutLog[Len(layoutLog)]

\* C11: a layout pass in which parseWorkflow throws ends inside the effect: the
\* component stays mounted, the error state holds the descriptive message and
\* the displayed graph is empty; a pass that does not throw leaves the error
\* state cleared, whatever it was before the pass.
C11_ThrowIsCaught ==
  (mounted /\ Len(layoutLog) > 0) =>
    IF lastPass.threw
    THEN /\ errorVisualizing = CouldNotVisualize
         /\ errorVisualizing # Null
         /\ visData = EmptyVisData
    ELSE errorVisualizing = Null

\* a pass threw and the next pass, on a changed pipeline, did not
C11_Witness ==
  /\ mounted
  /\ Len(layoutLog) > 1
  /\ layoutLog[Len(layoutLog) - 1].threw
  /\ lastPass.errorBefore = CouldNotVisualize
  /\ ~lastPass.threw
  /\ errorVisualizing = Null
  /\ Len(visData.nodes) > 0

\* the returned nodes that are in no layer
unplacedNodes ==
  LET layers == theGraph.layers
  IN {k \in 1..Len(visData.nodes) : ~hasLayer(layers, visData.nodes[k].id)}

\* the soft warning for n unplaced processes
unplacedWarning(n) == [text |-> "processes could not be placed", count |-> n]

\* C12 (as stated): when a layout pass leaves called processes unplaced because
\* of a dependency cycle, the component shows a warning with the number of
\* unplaced processes and sets no error.
C12_UnplacedWarningShown ==
  (laidOut /\ \E k \in 1..Len(visData.nodes) :
                 onCycle(edgePairs(visData.edges), visData.nodes[k].id)) =>
    /\ unplacedWarning(Cardinality(unplacedNodes)) \in renderedTexts
    /\ errorVisualizing = Null

\* C13: after a successful layout pass the canvas size encloses every returned
\* node with a margin of twice the spacing (canvas width >= x + width + 2 *
\* X_SPACING, canvas height >= y + height + 2 * Y_SPACING), and every node has
\* the fixed width and height.
C13_CanvasEnclosesNodes ==
  (mounted /\ errorVisualizing = Null) =>
    \A k \in 1..Len(visData.nodes) :
      LET n == visData.nodes[k]
      IN /\ canvasSize.width >= n.x + n.width + 2 * px(X_SPACING)
         /\ canvasSize.height >= n.y + n.height + 2 * px(Y_SPACING)
         /\ n.width = px(NODE_WIDTH)
         /\ n.height = px(NODE_HEIGHT)

\* a layer too wide for the initial canvas: the canvas has grown in width
C13_Witness ==
  /\ mounted
  /\ Len(visData.nodes) > 0
  /\ canvasSize.width > px(DefaultCanvasWidth)

\* three layers: the canvas has grown in height
C13_WitnessHeight ==
  /\ mounted
  /\ Len(visData.nodes) > 0
  /\ canvasSize.height > px(DefaultCanvasHeight)

\* the number of edges on the longest path of E that ends in v, paths of at
\* most n edges
RECURSIVE longestPathDepth(_, _, _)
longestPathDepth(E, v, n) ==
  LET preds == {e[1] : e \in {d \in E : d[2] = v}}
      below == {longestPathDepth(E, u, n - 1) : u \in preds}
  IN IF n = 0 \/ preds = {} THEN 0
     ELSE 1 + CHOOSE m \in below : \A o \in below : o <= m

\* the placed nodes of a graph whose layer is not their longest-path depth
offDepth(g) ==
  {k \in 1..Len(g.nodes) :
     /\ hasLayer(g.layers, g.nodes[k].id)
     /\ layerIndex(g.layers, g.nodes[k].id)
          # longestPathDepth(edgePairs(g.edges), g.nodes[k].id, Len(g.edges))}

\* the edges into a placed node that has an earlier placed predecessor: nodes
\* whose predecessors are processed in different rounds
staggered(g) ==
  {e[2] : e \in {d \in edgePairs(g.edges) \X edgePairs(g.edges) :
                   /\ d[1][2] = d[2][2]
                   /\ hasLayer(g.layers, d[1][2])
                   /\ hasLayer(g.layers, d[1][1])
                   /\ hasLayer(g.layers, d[2][1])
                   /\ layerIndex(g.layers, d[1][1])
                        < layerIndex(g.layers, d[2][1])}}

\* C17 (as stated): the layer index the wave-by-wave Kahn layering gives a
\* placed node can differ from the node's longest-path depth.  The two can
\* only disagree on a graph with a node whose predecessors are processed in
\* different rounds (with all predecessors in one layer both give the next
\* layer), the case the claim is about: laid out, such a graph has a placed
\* node whose layer index is not its longest-path depth.
C17_LayerCanDifferFromDepth ==
  (laidOut /\ staggered(theGraph) # {}) => offDepth(theGraph) # {}

\* C17 (amended): the layer index of every placed node equals its longest-path
\* depth, the number of edges on the longest dependency path that ends in it,
\* and the y of the node is the y of that layer.
C17_LayerIsLongestPathDepth ==
  laidOut =>
    /\ offDepth(theGraph) = {}
    /\ \A k \in 1..Len(visData.nodes) :
         hasLayer(theGraph.layers, visData.nodes[k].id) =>
           visData.nodes[k].y
             = layerY(longestPathDepth(edgePairs(visData.edges),
                                       visData.nodes[k].id, Len(visData.edges)))

\* a placed node whose predecessors sit in different layers: its last
\* predecessor is processed two rounds after its first
C17_Witness ==
  /\ laidOut
  /\ \E v \in staggered(theGraph) :
       /\ layerIndex(theGraph.layers, v[2]) = 2
       /\ nodeById(visData.nodes, v[2]).y = layerY(2)

\* the centered position of a layer of n nodes under the width the last pass
\* laid out for
centeredX(n) == (lastPass.layoutWidth - layerWidth(n)) \div 2

\* the nodes of every layer stand left to right from x = first(n), spaced by
\* node width plus gap
layersStartAt(first(_)) ==
  \A l \in 1..Len(theGraph.layers) :
    \A j \in 1..Len(theGraph.layers[l]) :
      nodeById(visData.nodes, theGraph.layers[l][j]).x
        = first(Len(theGraph.layers[l])) + (j - 1) * (px(NODE_WIDTH) + px(X_SPACING))

marginIfNegative(n) == IF centeredX(n) < 0 THEN px(X_SPACING) ELSE centeredX(n)
marginIfBelowMargin(n) ==
  IF centeredX(n) < px(X_SPACING) THEN px(X_SPACING) ELSE centeredX(n)

\* C18 (as stated): within a layer the nodes are placed left to right, spaced by
\* node width plus horizontal gap, the first at x = (target canvas width -
\* layer width) / 2; the minimum left margin replaces that position only when
\* it is negative, every non-negative centered position is kept.
C18_MarginOnlyWhenNegative ==
  (laidOut /\ Len(layoutLog) > 0) => layersStartAt(marginIfNegative)

\* C18 (amended): as above, but the minimum left margin X_SPACING replaces the
\* centered position whenever that position is smaller than the margin; a
\* centered position of at least the margin is kept.
C18_MarginWhenBelowMargin ==
  (laidOut /\ Len(layoutLog) > 0) => layersStartAt(marginIfBelowMargin)

\* a layer whose centered position is non-negative and smaller than the margin
\* starts at the margin
C18_Witness ==
  /\ laidOut
  /\ Len(layoutLog) > 0
  /\ \E l \in 1..Len(theGraph.layers) :
       /\ centeredX(Len(theGraph.layers[l])) >= 0
       /\ centeredX(Len(theGraph.layers[l])) < px(X_SPACING)
       /\ nodeById(visData.nodes, theGraph.layers[l][1]).x = px(X_SPACING)

\* a layer of two nodes that is exactly centered
C18_WitnessCentered ==
  /\ laidOut
  /\ Len(layoutLog) > 0
  /\ \E c \in 1..Len(theGraph.layers) :
       /\ Len(theGraph.layers[c]) = 2
       /\ centeredX(2) > px(X_SPACING)
       /\ nodeById(visData.nodes, theGraph.layers[c][1]).x = centeredX(2)
       /\ nodeById(visData.nodes, theGraph.layers[c][2]).x
            = centeredX(2) + px(NODE_WIDTH) + px(X_SPACING)

\* C19 (as stated): for every returned edge, the start point is the
\* bottom-center of its source node (source.x + width/2, source.y + height)
\* and the end point is the top-center of its target node (target.x + width/2,
\* target.y), with the final coordinates of those nodes.
C19_EdgeEndpoints ==
  laidOut =>
    \A k \in 1..Len(visData.edges) :
      LET e == visData.edges[k]
      IN /\ nodeMapGet(visData.nodes, e.source) # {}
         /\ nodeMapGet(visData.nodes, e.target) # {}
         /\ e.startX = nodeById(visData.nodes, e.source).x + px(NODE_WIDTH) \div 2
         /\ e.startY = nodeById(visData.nodes, e.source).y + px(NODE_HEIGHT)
         /\ e.endX = nodeById(visData.nodes, e.target).x + px(NODE_WIDTH) \div 2
         /\ e.endY = nodeById(visData.nodes, e.target).y

\* C20 (as stated): for every returned edge whose start and end points have
\* the same x coordinate, the x of the control point differs from that common
\* x, so the curve is not a straight vertical line.
C20_ControlPointOffColumn ==
  laidOut =>
    \A k \in 1..Len(visData.edges) :
      visData.edges[k].startX = visData.edges[k].endX
        => visData.edges[k].controlX # visData.edges[k].startX

\* a step of a suggest or an apply operation
suggestOrApplyStep ==
  \/ HandleSuggestWorkflow
  \/ ApplyWorkflowSuggestion
  \/ HandleGenerateFullPipeline
  \/ ApplyFullPipelineSuggestion
  \/ GenerateContentSettles
  \/ HandleGeminiSuggest
  \/ ApplySuggestionPart

\* the pipeline is the initial pipeline of App
pipelineUntouched ==
  /\ workflowContent = initialWorkflowContent
  /\ processes = <<>>
  /\ pipelineMeta = initialPipelineMeta

\* C14: without an API key no suggest function calls the AI service, each
\* invoked suggest function returns the API-unavailable error, no apply button
\* is offered, and no step of a suggest or apply operation (workflow
\* suggestion, Pipeline Genie, process suggester) changes the pipeline.
C14_NoKeyNoAi ==
  /\ [](~ai =>
         /\ \A i \in 1..Len(requests) :
              /\ requests[i].calls = 0
              /\ requests[i].invoked
                   => requests[i].value = [text |-> API_UNAVAILABLE_ERROR]
         /\ suggestedWorkflowContent \in {<<>>, API_UNAVAILABLE_ERROR}
         /\ genieError \in {NullText, API_UNAVAILABLE_ERROR}
         /\ fullPipelineSuggestion = NullObject
         /\ ~applyWorkflowShown
         /\ ~applyFullShown)
  /\ [][(~ai /\ suggestOrApplyStep) => UNCHANGED pipelineVars]_vars

\* without a key a workflow suggestion and a full pipeline were requested: both
\* came back as the API-unavailable error and the pipeline is as it was
C14_Witness ==
  /\ ~ai
  /\ \E i, j \in 1..Len(requests) :
       /\ requests[i].kind = "workflow" /\ requests[i].deliveries = 1
       /\ requests[j].kind = "full" /\ requests[j].deliveries = 1
  /\ suggestedWorkflowContent = API_UNAVAILABLE_ERROR
  /\ genieError = API_UNAVAILABLE_ERROR
  /\ pipelineUntouched

\* without a key the handler of the process suggester has run in the editor
C14_WitnessProcess ==
  /\ ~ai
  /\ isProcessModalOpen
  /\ \E i \in 1..Len(requests) : requests[i].kind = "process"
  /\ geminiSuggestion = AiFeaturesDisabled
  /\ currentProc = initialProcessState
  /\ pipelineUntouched

\* C15 (as stated): with the Gemini API configured, in the process editor
\* opened from the application the task description can be entered, and a
\* request with a non-empty description calls suggestNextflowProcessParts once
\* with that description; once the call has ended its result is the displayed
\* process suggestion.
C15_ProcessSuggesterCallsService ==
  ai =>
    /\ isProcessModalOpen => ~taskTextareaDisabled
    /\ \A i \in 1..Len(requests) :
         (requests[i].kind = "process" /\ trim(requests[i].arg) # <<>>) =>
           /\ requests[i].invoked
           /\ requests[i].calls = 1
           /\ (requests[i].settled /\ isProcessModalOpen)
                => geminiSuggestion = requests[i].value.text

\* C16: every suggestion request calls the AI service at most once, also when
\* the call fails; a pending request has been delivered to no handler, and a
\* settled request of an invoked suggest function to its handler exactly once.
C16_OneCallOneDelivery ==
  \A i \in 1..Len(requests) :
    /\ requests[i].calls <= 1
    /\ requests[i].deliveries <= 1
    /\ ~requests[i].settled => requests[i].calls = 1 /\ requests[i].deliveries = 0
    /\ (requests[i].settled /\ requests[i].invoked) => requests[i].deliveries = 1

\* a workflow request whose call failed and a full-pipeline request whose call
\* was answered: one call and one delivery each
C16_Witness ==
  /\ ai
  /\ \E i, j \in 1..Len(requests) :
       /\ requests[i].kind = "workflow"
       /\ requests[i].settled
       /\ requests[i].calls = 1
       /\ requests[i].deliveries = 1
       /\ requests[i].value.text
            = ErrorWord \o <<" ", "generating workflow suggestion: ", "quota exceeded">>
       /\ suggestedWorkflowContent = requests[i].value.text
       /\ requests[j].kind = "full"
       /\ requests[j].settled
       /\ requests[j].calls = 1
       /\ requests[j].deliveries = 1
       /\ "suggestion" \in DOMAIN requests[j].value

(***************************************************************************)
(* Arguments with a parenthesized sub-expression                           *)
(***************************************************************************)
\* the close parenthesis that balances the open parenthesis of the construct
\* at p: where the arguments end as they are written
writtenClose(s, p) == balancedEnd(s, openOf(s, p) + 1, 0)

\* the extracted calls of the text begin at these positions
extractedAt(s) == {p \in 1..Len(s) : callOccurrence(s, p) /\ ~enclosed(s, p)}

\* the reference tokens written in the arguments of the call at p behind the
\* first close parenthesis
laterReferences(s, p) ==
  IF writtenClose(s, p) > Len(s) THEN {}
  ELSE {q \in closeOf(s, p) + 1..writtenClose(s, p) - 1 : referenceAt(s, q)}

\* the text without the reference token at q: spaces in its place
blanked(s, q) ==
  [k \in 1..Len(s) |->
     IF k \in q..identifierLast(s, q) + Len(DotOut) THEN " " ELSE s[k]]

edgesOfText(s) == edgePairs(parseWorkflow(s, processes, canvasSizeForLayout).edges)

\* the edge of the reference at q as an argument of an extracted call
edgeOfReference(s, q) ==
  {<<identifierAt(s, q), identifierAt(s, p)>> :
     p \in {r \in extractedAt(s) :
              /\ openOf(s, r) < q
              /\ q < closeOf(s, r)
              /\ identifierAt(s, q) \in declaredNames
              /\ identifierAt(s, q) # identifierAt(s, r)}}

\* C21 (as stated): the argument text of an extracted call ends at the first
\* close parenthesis; every reference written in the arguments behind that
\* close parenthesis is ignored, it produces no edge at all (the edges are
\* those of the text without it), and no error is raised.
C21_LaterReferenceMakesNoEdge ==
  laidOut =>
    /\ errorVisualizing = Null
    /\ \A k \in 1..Len(theCalls) : ~includes(theCalls[k].inputs, ")")
    /\ \A p \in extractedAt(workflowContent) :
         \A q \in laterReferences(workflowContent, p) :
           edgePairs(visData.edges) = edgesOfText(blanked(workflowContent, q))

\* C21 (amended): the argument text of an extracted call ends at the first
\* close parenthesis; a reference written in the arguments behind it is no
\* argument of that call, the text behind the close parenthesis is scanned
\* for further calls, and the reference produces an edge exactly when it lies
\* in the argument text of a call extracted there; no error is raised.
C21_LaterReferenceIsNoArgument ==
  laidOut =>
    /\ errorVisualizing = Null
    /\ \A k \in 1..Len(theCalls) : ~includes(theCalls[k].inputs, ")")
    /\ \A p \in extractedAt(workflowContent) :
         \A q \in laterReferences(workflowContent, p) :
           edgePairs(visData.edges)
             = edgesOfText(blanked(workflowContent, q))
                 \cup edgeOfReference(workflowContent, q)

\* a call whose arguments hold a parenthesized expression and, behind its
\* close parenthesis, a reference to another declared process: no edge from
\* that process to the called one, no error
C21_Witness ==
  /\ laidOut
  /\ errorVisualizing = Null
  /\ \E p \in extractedAt(workflowContent) :
       \E q \in laterReferences(workflowContent, p) :
         /\ identifierAt(workflowContent, q) \in declaredNames
         /\ identifierAt(workflowContent, q) # identifierAt(workflowContent, p)
         /\ <<identifierAt(workflowContent, q), identifierAt(workflowContent, p)>>
              \notin edgePairs(visData.edges)

\* a reference behind the first close parenthesis lies in the arguments of a
\* nested call, which is extracted, and is an edge into it
C21_WitnessNestedCall ==
  /\ laidOut
  /\ \E p \in extractedAt(workflowContent) :
       \E q \in laterReferences(workflowContent, p) :
         /\ edgeOfReference(workflowContent, q) # {}
         /\ edgeOfReference(workflowContent, q) \subseteq edgePairs(visData.edges)
         /\ edgesOfText(blanked(workflowContent, q)) = {}

\* C27 (as stated): every returned edge has both its source and its target
\* among the ids of the returned nodes.
C27_EdgeEndsAreNodes ==
  laidOut =>
    \A k \in 1..Len(visData.edges) :
      /\ visData.edges[k].source \in nodeIds(visData.nodes)
      /\ visData.edges[k].target \in nodeIds(visData.nodes)

\* the processes on a cycle of E and those reachable from one
cycleBound(E) ==
  reachable(E, {e[1] : e \in {d \in E : onCycle(E, d[1])}}, Cardinality(E))

\* C28 (as stated): every returned node that is neither on a dependency cycle
\* nor reachable from one is in a layer and has layout coordinates other than
\* its initial position (0, 0).
C28_OnlyCyclesLeaveUnplaced ==
  laidOut =>
    \A k \in 1..Len(visData.nodes) :
      visData.nodes[k].id \notin cycleBound(edgePairs(visData.edges)) =>
        /\ hasLayer(theGraph.layers, visData.nodes[k].id)
        /\ visData.nodes[k].x > 0
        /\ visData.nodes[k].y > 0

\* the texts suggestNextflowWorkflow returns when the request fails: without
\* a client, and when the call of generateContent is rejected
workflowFailureTexts ==
  {API_UNAVAILABLE_ERROR}
  \cup {suggestNextflowWorkflow(newRequest("workflow", <<>>, TRUE), outcome).value.text :
          outcome \in {o \in outcomesOf({}) : o.kind # "text"}}

\* C25 (as stated): the text a failed workflow-suggestion request leaves as the
\* workflow suggestion cannot be applied (the apply operation is not offered
\* and would change nothing), and the workflow block is never such a text.
C25_FailedSuggestionNotApplied ==
  /\ suggestedWorkflowContent \in workflowFailureTexts =>
       /\ ~applyWorkflowShown
       /\ ~ENABLED ApplyWorkflowSuggestion
  /\ workflowContent \notin workflowFailureTexts

\* C26 (as stated): when the call of a full-pipeline request that was pending
\* at the latest opening of the Genie modal ends, its response is not stored:
\* the stored suggestion and the Genie error stay empty.
C26_StaleResponseNeverStored ==
  [][\A i \in 1..Len(requests) :
       (requests[i].kind = "full" /\ requests[i].stale /\ requests'[i].settled) =>
         /\ fullPipelineSuggestion' = NullObject
         /\ genieError' = NullText]_vars

\* the requests of a kind that are in flight
inFlight(kind) ==
  {i \in 1..Len(requests) : requests[i].kind = kind /\ ~requests[i].settled}

\* C29: at most one full-pipeline request and at most one workflow request is
\* in flight; the busy flag of a kind is set exactly while a request of that
\* kind is in flight (cleared when it completes, with a response or a
\* failure), and while it is set the triggering button is disabled and the
\* handler cannot start another request.
C29_OneRequestInFlight ==
  /\ Cardinality(inFlight("full")) <= 1
  /\ Cardinality(inFlight("workflow")) <= 1
  /\ isGeneratingFullPipeline <=> inFlight("full") # {}
  /\ isSuggestingWorkflow <=> inFlight("workflow") # {}
  /\ isGeneratingFullPipeline =>
       generateFullPipelineDisabled /\ ~ENABLED HandleGenerateFullPipeline
  /\ isSuggestingWorkflow =>
       suggestWorkflowDisabled /\ ~ENABLED HandleSuggestWorkflow

\* a full-pipeline request is in flight across closing and reopening the
\* Genie modal, a goal is entered again and a request is still allowed by the
\* bound: only the busy flag disables the button
C29_Witness ==
  /\ isGenieModalOpen
  /\ isGeneratingFullPipeline
  /\ trim(geniePipelineGoal) # <<>>
  /\ Len(requests) < MaxRequests
  /\ \E i \in inFlight("full") : requests[i].stale

\* a workflow request is in flight while another tab is shown
C29_WitnessTab ==
  /\ isSuggestingWorkflow
  /\ activeTab # "Workflow"
  /\ inFlight("workflow") # {}

\* a workflow request that failed has completed: its flag is cleared
C29_WitnessCleared ==
  /\ ~isSuggestingWorkflow
  /\ \E i \in 1..Len(requests) :
       /\ requests[i].kind = "workflow"
       /\ requests[i].calls = 1
       /\ requests[i].settled
       /\ requests[i].value.text \in workflowFailureTexts

\* a parsed response with a non-empty pipelineName, array-valued parameters
\* and processes, and a workflowContent
completeSuggestion(v) ==
  /\ DOMAIN v = {"object"}
  /\ {"pipelineName", "parameters", "processes", "workflowContent"}
       \subseteq DOMAIN v.object
  /\ DOMAIN v.object.pipelineName = {"string"}
  /\ v.object.pipelineName.string # <<>>
  /\ DOMAIN v.object.parameters = {"array"}
  /\ DOMAIN v.object.processes = {"array"}

\* C30: a settled call of suggestFullNextflowPipeline has a value, a
\* suggestion object or a string; it is a suggestion only for a complete
\* parsed response and a non-empty error string otherwise; the handler keeps
\* the string as the Genie error with an empty stored suggestion, and a stored
\* suggestion is a complete one with no Genie error.
C30_ErrorStringOrCompleteSuggestion ==
  /\ \A i \in 1..Len(requests) :
       (requests[i].kind = "full" /\ requests[i].invoked /\ requests[i].settled) =>
         /\ DOMAIN requests[i].value \in {{"text"}, {"suggestion"}}
         /\ "suggestion" \in DOMAIN requests[i].value =>
              completeSuggestion(requests[i].value.suggestion)
         /\ "text" \in DOMAIN requests[i].value => requests[i].value.text # <<>>
  /\ genieError # NullText =>
       /\ fullPipelineSuggestion = NullObject
       /\ \E i \in 1..Len(requests) :
            /\ requests[i].kind = "full"
            /\ requests[i].deliveries = 1
            /\ requests[i].value = [text |-> genieError]
  /\ fullPipelineSuggestion # NullObject =>
       /\ genieError = NullText
       /\ completeSuggestion(fullPipelineSuggestion)
       /\ \E i \in 1..Len(requests) :
            /\ requests[i].kind = "full"
            /\ requests[i].deliveries = 1
            /\ requests[i].value = [suggestion |-> fullPipelineSuggestion]

\* the service answered with an incomplete document: the format error is the
\* Genie error and no suggestion is stored
C30_Witness ==
  /\ ai
  /\ genieError = errorProcessing(NotExpectedFormat,
                                  <<"Error details: ">> \o NotExpectedFormat)
  /\ fullPipelineSuggestion = NullObject

\* the service answered with a complete document in a code fence
C30_WitnessSuggestion ==
  /\ fullPipelineSuggestion = obj(pipelineSuggestion)
  /\ genieError = NullText

\* the service answered with no JSON: the raw response is in the Genie error
C30_WitnessUnparsable ==
  /\ genieError = errorProcessing(<<"Unexpected token">>,
       <<"Raw Gemini Response (that failed parsing):", "\n",
         "Sure! Here is your pipeline">>)
  /\ fullPipelineSuggestion = NullObject

\* the list is mapped from the entries by make, whatever the time and the
\* random parts of the ids
mappedFrom(list, entries, make(_, _, _, _)) ==
  /\ Len(list) = Len(entries)
  /\ \A i \in 1..Len(list) :
       \E now \in Times, random \in Randoms :
         list[i] = make(entries[i], i - 1, now, random)

\* what an apply step leaves of the lists, of nextflowConfigContent and of
\* the state of the Genie
appliedAround ==
  /\ mappedFrom(pipelineMeta'.parameters, suggestedParameters, newParam)
  /\ mappedFrom(processes', suggestedProcesses, newProc)
  /\ pipelineMeta'.nextflowConfigContent = pipelineMeta.nextflowConfigContent
  /\ ~isGenieModalOpen'
  /\ fullPipelineSuggestion' = NullObject
  /\ geniePipelineGoal' = <<>>
  /\ activeTab' = "Preview"

\* the field of the stored suggestion is absent or the string text
suggests(name, text) ==
  field(fullPipelineSuggestion, name) \in {Undefined, str(text)}

\* the field of the stored suggestion is a non-empty string, which is text,
\* or it is absent or empty and text is current
suggestsOrKeeps(name, text, current) ==
  IF truthy(field(fullPipelineSuggestion, name))
  THEN field(fullPipelineSuggestion, name) = str(text)
  ELSE text = current

\* C23 (as stated): an apply step leaves exactly the parameters and processes
\* mapped from the suggestion, name, description, version and workflowContent
\* are the values the suggestion has for them, nextflowConfigContent is
\* unchanged, the Genie modal is closed, suggestion and goal are cleared and
\* the active tab is Preview.
C23_SuggestionValuesWritten ==
  [][ApplyFullPipelineSuggestion =>
       /\ appliedAround
       /\ suggests("pipelineName", pipelineMeta'.name)
       /\ suggests("pipelineDescription", pipelineMeta'.description)
       /\ suggests("pipelineVersion", pipelineMeta'.version)
       /\ suggests("workflowContent", workflowContent')]_vars

\* C23 (amended): as above, but name, description, version and workflowContent
\* are the suggestion's values where it has a non-empty value, and keep the
\* current value of the pipeline where the suggestion has none or an empty one.
C23_SuggestionValuesOrCurrent ==
  [][ApplyFullPipelineSuggestion =>
       /\ appliedAround
       /\ suggestsOrKeeps("pipelineName", pipelineMeta'.name, pipelineMeta.name)
       /\ suggestsOrKeeps("pipelineDescription", pipelineMeta'.description,
                          pipelineMeta.description)
       /\ suggestsOrKeeps("pipelineVersion", pipelineMeta'.version,
                          pipelineMeta.version)
       /\ suggestsOrKeeps("workflowContent", workflowContent', workflowContent)]_vars

\* a suggestion with an empty description and no version has been applied:
\* its name, parameters, processes and workflow block, the description and the
\* version as they were
C23_Witness ==
  /\ activeTab = "Preview"
  /\ ~isGenieModalOpen
  /\ fullPipelineSuggestion = NullObject
  /\ pipelineMeta.name = <<"P">>
  /\ pipelineMeta.description = initialPipelineMeta.description
  /\ pipelineMeta.version = initialPipelineMeta.version
  /\ Len(pipelineMeta.parameters) = 1
  /\ Len(processes) = 2
  /\ workflowContent = field(obj(pipelineSuggestion), "workflowContent").string

\* a suggestion has been applied over the processes of an earlier one
C23_WitnessOverwrite ==
  /\ activeTab = "Preview"
  /\ ~isGenieModalOpen
  /\ Len(processes) = 2
  /\ Len(requests) = 2
  /\ \A i \in 1..Len(requests) :
       requests[i].kind = "full" /\ "suggestion" \in DOMAIN requests[i].value
  /\ workflowContent = field(obj(pipelineSuggestion), "workflowContent").string

\* the entries of the list have pairwise distinct values of the field
distinctBy(list, f) ==
  \A i, j \in 1..Len(list) : list[i][f] = list[j][f] => i = j

\* C22 (as stated): the names of the processes in pipeline.processes are
\* pairwise distinct.
C22_ProcessNamesDistinct == distinctBy(processes, "name")

\* the ids of a list
idsOf(list) == {list[i].id : i \in 1..Len(list)}

\* what a save makes of a list: nothing (no name), an entry replaced in place
\* by one of its id, or an entry of a new id added at the end
saved(old, new) ==
  \/ new = old
  \/ /\ Len(new) = Len(old)
     /\ \E i \in 1..Len(old) :
          \A j \in 1..Len(old) :
            IF j = i THEN new[j].id = old[j].id ELSE new[j] = old[j]
  \/ /\ Len(new) = Len(old) + 1
     /\ SubSeq(new, 1, Len(old)) = old
     /\ new[Len(new)].id \notin idsOf(old)

\* C24: the ids of the parameters and the ids of the processes are pairwise
\* distinct after every step; a save of an entry whose id is present replaces
\* that entry in place (length, order and the other entries as before), a
\* save of an entry with a new id adds it at the end.
C24_SaveKeepsIdsDistinct ==
  [][/\ distinctBy(pipelineMeta'.parameters, "id")
     /\ distinctBy(processes', "id")
     /\ HandleSubmitParameter =>
          saved(pipelineMeta.parameters, pipelineMeta'.parameters)
     /\ HandleSubmitProcess => saved(processes, processes')]_vars

\* two processes and two parameters are listed and the second process is
\* under edit: its save will replace it in place
C24_Witness ==
  /\ Len(processes) = 2
  /\ Len(pipelineMeta.parameters) = 2
  /\ isProcessModalOpen
  /\ editingProcess = processes[1]
  /\ processes[1].name # processes[2].name

====
